---- MODULE Spec2Model ----
(***************************************************************************)
(* Model of acuvity/mcp-microsoft: the paginated collection aggregation of *)
(* the users, applications and sites tools (Get, GetSubsites, GetPages)    *)
(* and the page renderer of the sites tool (getPageContent).               *)
(*                                                                         *)
(* Strings the code inspects character by character are sequences of       *)
(* one-character strings; identifiers and attribute values the code only   *)
(* copies are atomic strings.                                              *)
(***************************************************************************)
EXTENDS Integers, Sequences, FiniteSets, TLC

VARIABLES
    kind,       \* which tool's Get runs: "users", "applications", "sites"
    pc,         \* position of the running Get
    data,       \* usersData / applicationsData / sitesData
    ret,        \* what Get returned: [returned, nilBytes, doc, err]
    todo,       \* sites Get: keys of sitesData the range loop has not visited
    cur,        \* sites Get: the site id of the current loop iteration
    items,      \* GetSubsites / GetPages: the slice being gathered
    subRet,     \* what the last GetSubsites / GetPages call returned, when it failed
    listed,     \* sites Get: identifiers of the pages GetPages returned for the current site
    pageData,   \* sites Get: pageData of the current site
    left,       \* sites Get: pages of the current site not yet rendered
    nfetch,     \* pages fetched so far of the collection being read
    nrecs,      \* records delivered so far of the subsites / pages collection being read
    served,     \* history: identifiers the service delivered for the main collection
    lastRec,    \* history: per identifier, the last record the service delivered
    laterDup,   \* history: per identifier, the first record delivered on a later page than another record of that identifier
    fetchFailed,\* history: a fetch of the main collection failed
    outcomes,   \* history: per page of the current site, the outcomes of its content fetches
    format,     \* getPageContent: the format asked for, "markdown" or "plain"
    rpc,        \* getPageContent: position of the walk
    contentBuilder, \* getPageContent: the text written so far
    secIdx,     \* getPageContent: index of the horizontal section at hand
    nSecs,      \* getPageContent: len(sections)
    colIdx,     \* getPageContent: index of the column at hand
    nCols,      \* getPageContent: len(columns) of the section at hand
    wpIdx,      \* getPageContent: index of the web part at hand
    nWps,       \* getPageContent: len(webParts) of the list at hand
    result,     \* what getPageContent returned: [returned, content, err, panic]
    opened,     \* history: the sum of the lengths of the column lists entered
    announced,  \* history: the sum of the lengths of the web part lists entered
    trace,      \* history: the web parts visited, in the order of the visits
    webPart,    \* content lookup: the web part at hand
    where,      \* content lookup: "column" or "vertical"
    resolved,   \* content lookup: what it did, [done, r]
    cancelled,  \* the request context of the caller is cancelled
    lateFetch,  \* history: a fetch completed successfully after the cancellation
    bag,        \* the baggage value the request context carries
    toolResult, \* what the Processor of the tool returned before calling Get
    record,     \* a normalizer on its own: the record and the tool it belongs to
    resource,   \* a normalizer on its own: what it returned, [done, key, map]
    htmlArg,    \* htmlToMarkdown on its own: its argument
    unescaped,  \* htmlToMarkdown on its own: the working string
    mpc,        \* htmlToMarkdown on its own: position in the function
    loops       \* history: iterations of the loop over divRegex so far

aggVars == <<kind, pc, data, ret, todo, cur, items, subRet, listed, pageData, left,
             nfetch, nrecs, served, lastRec, laterDup, fetchFailed, outcomes>>

renderVars == <<format, rpc, contentBuilder, secIdx, nSecs, colIdx, nCols, wpIdx, nWps,
                result, opened, announced, trace, webPart, where, resolved>>

ctxVars == <<cancelled, lateFetch, bag, toolResult>>

pureVars == <<record, resource, htmlArg, unescaped, mpc, loops>>

vars == <<aggVars, renderVars, ctxVars, pureVars>>

-----------------------------------------------------------------------------
(* Bounds of the model *)

\* pages a collection can span (the continuation chain is finite)
MaxPages == 3
\* records on one page of the users / applications / sites collection
MaxRecs == 2
\* records a site's subsites or pages collection holds, over all its pages
MaxSubRecs == 2
\* pages a site's subsites or pages collection can span
MaxSubPages == 2
\* horizontal sections of a canvas layout
MaxSections == 2
\* columns of a canvas layout, over all its sections
MaxColumns == 2
\* web parts of a canvas layout, over all its columns and its vertical section
MaxBlocks == 3
\* pieces an argument of htmlToMarkdown is made of
MaxPieces == 3
\* rows of td cells of a table
MaxRows == 2
\* depth of the nested wrappers of an argument of htmlToMarkdown
MaxDepth == 3
\* newlines in a row in an argument of htmlToMarkdown
MaxNewlines == 4
MaxItems == 2

-----------------------------------------------------------------------------
(* The directory service: records and collection responses *)

Ids == {"a", "b"}
Names == {"v1", "v2"}
SubsiteIds == {"x"}
PageIds == {"p", "q"}

\* GetOdataNextLink(): nil, the empty string, or a link
NoLink == "<nil>"
NextLinks == {NoLink, "", "link"}

EmptyMap == <<>>

\* additional data of a record: nothing, or a displayName of its own
AdditionalDatas == {EmptyMap, [displayName |-> "w"]}

\* the additional data of the records the collections deliver
PlainData == {EmptyMap}

Records(ids) == [id : ids, displayName : Names, additionalData : PlainData]

SeqsUpTo(S, n) == UNION {[1..k -> S] : k \in 0..n}

\* a collection response: GetValue() (nil when the record list is absent) and
\* GetOdataNextLink()
Responses(ids, n) ==
    [hasValue : {TRUE}, value : SeqsUpTo(Records(ids), n), next : NextLinks]

NilValueResponses == [hasValue : {FALSE}, value : {<<>>}, next : NextLinks]

HasNext(p) == p.next # NoLink /\ p.next # ""

-----------------------------------------------------------------------------
(* Resource normalizers *)

\* a normalizer in which the typed fields win
convertUserToMapTypedLast(rec) ==
    [key |-> rec.id,
     map |-> [id |-> rec.id, displayName |-> rec.displayName] @@ rec.additionalData]

\* typed fields first, then every additional-data field over them
convertUserToMap(rec) ==
    [key |-> rec.id,
     map |-> rec.additionalData @@ [id |-> rec.id, displayName |-> rec.displayName]]

convertApplicationToMap(rec) ==
    [key |-> rec.id,
     map |-> rec.additionalData @@ [id |-> rec.id, displayName |-> rec.displayName]]

convertSiteToMap(rec) ==
    [key |-> rec.id,
     map |-> rec.additionalData @@ [id |-> rec.id, displayName |-> rec.displayName]]

convertSitePageToMap(rec) ==
    [key |-> rec.id,
     map |-> rec.additionalData @@ [id |-> rec.id, title |-> rec.displayName]]

Convert(k, rec) ==
    CASE k = "users" -> convertUserToMap(rec)
      [] k = "applications" -> convertApplicationToMap(rec)
      [] OTHER -> convertSiteToMap(rec)

\* m[key] = value
Upsert(m, key, value) == (key :> value) @@ m

\* a callback that keeps the entry an identifier already has
RECURSIVE UpsertAllKeepFirst(_, _, _)
UpsertAllKeepFirst(m, k, recs) ==
    IF recs = <<>> THEN m
    ELSE LET c == Convert(k, Head(recs))
         IN UpsertAllKeepFirst(IF c.key \in DOMAIN m THEN m ELSE Upsert(m, c.key, c.map),
                               k, Tail(recs))

\* the callback of Get applied to the records of one page, in order
RECURSIVE UpsertAll(_, _, _)
UpsertAll(m, k, recs) ==
    IF recs = <<>> THEN m
    ELSE LET c == Convert(k, Head(recs))
         IN UpsertAll(Upsert(m, c.key, c.map), k, Tail(recs))

-----------------------------------------------------------------------------
(* History of what the service delivered for the main collection *)

RECURSIVE LastOf(_, _)
LastOf(m, recs) ==
    IF recs = <<>> THEN m
    ELSE LastOf((Head(recs).id :> Head(recs)) @@ m, Tail(recs))

\* the first record of each identifier that arrives on a later page than a
\* record of the same identifier (before: the identifiers of the earlier pages)
RECURSIVE FirstLater(_, _, _)
FirstLater(m, before, recs) ==
    IF recs = <<>> THEN m
    ELSE LET x == Head(recs)
         IN FirstLater(IF x.id \in before /\ x.id \notin DOMAIN m
                       THEN (x.id :> x) @@ m ELSE m,
                       before, Tail(recs))

IdsOf(recs) == {recs[i].id : i \in 1..Len(recs)}

RecsOf(recs) == {recs[i] : i \in 1..Len(recs)}

Delivered(r) ==
    /\ served' = served \cup IdsOf(r.value)
    /\ lastRec' = LastOf(lastRec, r.value)
    /\ laterDup' = FirstLater(laterDup, served, r.value)

NotDelivered == UNCHANGED <<served, lastRec, laterDup>>

-----------------------------------------------------------------------------
(* The request context of the caller *)

\* a fetch made with the context of the caller: it succeeds only while the
\* context is not cancelled
WithContext ==
    /\ ~cancelled
    /\ UNCHANGED <<ctxVars, pureVars>>

\* a fetch made with context.Background(): the cancellation of the caller's
\* context does not reach it
WithBackground ==
    /\ cancelled' = cancelled
    /\ lateFetch' = (lateFetch \/ cancelled)
    /\ UNCHANGED <<bag, toolResult, pureVars>>

-----------------------------------------------------------------------------
(* The Processor of a tool: the client of the directory service is taken
   from the baggage of the request context *)

\* what BaggageFromContext(ctx) returns: nil when the context carries no
\* baggage value, a nil *GraphServiceClient, a client, or a value of another
\* type (the token string of WithTokenFromEnv)
Baggages == {"none", "nilClient", "client", "token"}

\* the type assertion .(*msgraphsdk.GraphServiceClient) has one result: it
\* panics unless the value is of that type
AssertionPanics(b) == b \in {"none", "token"}

\* the Processor up to the call of Get
Processor ==
    /\ pc = "call"
    /\ IF AssertionPanics(bag)
       THEN /\ toolResult' = "panic"
            /\ pc' = "done"
       ELSE IF bag = "nilClient"
            THEN /\ toolResult' = "client not found"
                 /\ pc' = "done"
            ELSE /\ toolResult' = toolResult
                 /\ pc' = "start"
    /\ NotDelivered
    /\ UNCHANGED <<cancelled, lateFetch, bag, pureVars>>
    /\ UNCHANGED <<listed, nrecs, kind, renderVars, data, ret, todo, cur, items, subRet,
                   pageData, left, nfetch, fetchFailed, outcomes>>

-----------------------------------------------------------------------------
(* Get of the users, applications and sites tools *)

\* json.MarshalIndent(data, "", "  "): the document of the collection
MarshalIndent(m) == [returned |-> TRUE, nilBytes |-> FALSE, doc |-> m, err |-> FALSE]

\* return nil, err
ReturnErr == [returned |-> TRUE, nilBytes |-> TRUE, doc |-> EmptyMap, err |-> TRUE]

\* return nil, err with err == nil (the record list of the first page is absent)
ReturnNilNil == [returned |-> TRUE, nilBytes |-> TRUE, doc |-> EmptyMap, err |-> FALSE]

NotReturned == [returned |-> FALSE, nilBytes |-> TRUE, doc |-> EmptyMap, err |-> FALSE]

\* whether Get builds a PageIterator over the first response: users and
\* applications always, sites only when the response carries a next link
UsesIterator(k, r) == IF k = "sites" THEN HasNext(r) ELSE TRUE

\* an iterator that never runs the callback
EnumerateNothing(m, k, r) == m

\* PageIterator.Iterate, the part that runs on the page in hand: the callback
\* is applied to every record of the page
Enumerate(m, k, r) == UpsertAll(m, k, r.value)

\* the responses the service may give for page number n of a collection
PageResponses(ids, recs, n) ==
    {r \in Responses(ids, recs) : n < MaxPages \/ ~HasNext(r)}

\* the merge is complete: users and applications return the document, sites
\* goes on to the range loop over sitesData
MergeDone(m) ==
    IF kind = "sites"
    THEN /\ pc' = "range"
         /\ todo' = DOMAIN m
         /\ ret' = ret
    ELSE /\ pc' = "done"
         /\ todo' = todo
         /\ ret' = MarshalIndent(m)

\* after the callback ran on the page in hand: fetch the next page or finish
AfterPage(m, r) ==
    IF HasNext(r)
    THEN /\ pc' = "next"
         /\ UNCHANGED <<todo, ret>>
    ELSE MergeDone(m)

\* client.Users().Get / Applications().Get / Sites().Get fails
GetFetchFails ==
    /\ pc = "start"
    /\ UNCHANGED <<ctxVars, pureVars>>
    /\ pc' = "done"
    /\ ret' = ReturnErr
    /\ fetchFailed' = TRUE
    /\ NotDelivered
    /\ UNCHANGED <<listed, nrecs, kind, renderVars, data, todo, cur, items, subRet, pageData, left,
                   nfetch, outcomes>>

\* the first response carries no record list: Get returns nil, err
GetNoValue ==
    /\ pc = "start"
    /\ WithContext
    /\ pc' = "done"
    /\ ret' = ReturnNilNil
    /\ nfetch' = 1
    /\ NotDelivered
    /\ UNCHANGED <<listed, nrecs, kind, renderVars, data, todo, cur, items, subRet, pageData, left,
                   fetchFailed, outcomes>>

\* the first response arrives: seed the collection, then (through the page
\* iterator, when one is built) run the callback on the same page again
GetFetch ==
    /\ pc = "start"
    /\ WithContext
    /\ \E r \in PageResponses(Ids, MaxRecs, 1) :
        LET seeded == UpsertAll(EmptyMap, kind, r.value)
            m == IF UsesIterator(kind, r) THEN Enumerate(seeded, kind, r) ELSE seeded
        IN /\ data' = m
           /\ nfetch' = 1
           /\ Delivered(r)
           /\ IF UsesIterator(kind, r) THEN AfterPage(m, r) ELSE MergeDone(m)
    /\ UNCHANGED <<listed, nrecs, kind, renderVars, cur, items, subRet, pageData, left, fetchFailed, outcomes>>

\* Iterate fetches the next page and the fetch fails: Get returns nil, err
GetNextFails ==
    /\ pc = "next"
    /\ UNCHANGED <<ctxVars, pureVars>>
    /\ pc' = "done"
    /\ ret' = ReturnErr
    /\ fetchFailed' = TRUE
    /\ NotDelivered
    /\ UNCHANGED <<listed, nrecs, kind, renderVars, data, todo, cur, items, subRet, pageData, left,
                   nfetch, outcomes>>

\* Iterate fetches the next page and runs the callback on its records
GetNext ==
    /\ pc = "next"
    /\ WithBackground
    /\ \E r \in PageResponses(Ids, MaxRecs, nfetch + 1) :
        LET m == Enumerate(data, kind, r)
        IN /\ data' = m
           /\ nfetch' = nfetch + 1
           /\ Delivered(r)
           /\ AfterPage(m, r)
    /\ UNCHANGED <<listed, nrecs, kind, renderVars, cur, items, subRet, pageData, left, fetchFailed, outcomes>>

-----------------------------------------------------------------------------
(* GetSubsites and GetPages *)

\* the records of a site's subsites and pages collections
SubRecords(ids) == [id : ids, displayName : {"v1"}, additionalData : {EmptyMap}]

\* the responses the service may give for page number n of such a collection,
\* of which it delivered k records already
SubResponses(ids, n, k) ==
    {r \in [hasValue : {TRUE}, value : SeqsUpTo(SubRecords(ids), MaxSubRecs - k),
            next : NextLinks] : n < MaxSubPages \/ ~HasNext(r)}

\* GetSubsites and GetPages build a PageIterator when the next link is not nil
SubUsesIterator(r) == r.next # NoLink

\* the callback of GetSubsites / GetPages on the page in hand: append each record
Append_All(slice, r) == slice \o r.value

\* what the first response leaves in the slice: the records of the response,
\* and once more through the iterator when one is built
FirstSlice(r) == IF SubUsesIterator(r) THEN Append_All(r.value, r) ELSE r.value

\* return subsites, fmt.Errorf(...) / return pages, fmt.Errorf(...)
ReturnWithErr(op, slice) == [op |-> op, recs |-> slice, err |-> TRUE]

\* return nil, fmt.Errorf(...)
ReturnNilErr(op) == [op |-> op, recs |-> <<>>, err |-> TRUE]

NoSubRet == [op |-> "none", recs |-> <<>>, err |-> FALSE]

RECURSIVE SubsiteMap(_, _)
SubsiteMap(m, recs) ==
    IF recs = <<>> THEN m
    ELSE LET c == convertSiteToMap(Head(recs))
         IN SubsiteMap(Upsert(m, c.key, c.map), Tail(recs))

\* site.(map[string]interface{})[attr] = value, for the site being visited
SetSiteAttr(m, id, attr, value) == Upsert(m, id, Upsert(m[id], attr, value))

\* GetSubsites returned without error: Get stores the subsites and calls GetPages
SubsitesReturned(id, slice) ==
    /\ subRet' = NoSubRet
    /\ data' = SetSiteAttr(data, id, "subsites", SubsiteMap(EmptyMap, slice))
    /\ items' = <<>>
    /\ pc' = "pages"

\* a new iteration of the range loop: its locals are fresh
NewIteration ==
    /\ listed' = {}
    /\ pageData' = EmptyMap
    /\ left' = <<>>
    /\ outcomes' = {}

\* the range loop takes a site and GetSubsites fails on its first fetch: continue
GetSubsitesFetchFails ==
    /\ pc = "range"
    /\ UNCHANGED <<ctxVars, pureVars>>
    /\ \E id \in todo :
        /\ cur' = id
        /\ todo' = todo \ {id}
    /\ subRet' = ReturnNilErr("GetSubsites")
    /\ pc' = "range"
    /\ nfetch' = 0
    /\ NewIteration
    /\ NotDelivered
    /\ UNCHANGED <<nrecs, kind, renderVars, data, ret, items, fetchFailed>>

\* the range loop takes a site and the first response of GetSubsites arrives
GetSubsitesFetch ==
    /\ pc = "range"
    /\ WithContext
    /\ \E id \in todo, r \in SubResponses(SubsiteIds, 1, 0) :
        /\ nrecs' = Len(r.value)
        /\ cur' = id
        /\ todo' = todo \ {id}
        /\ nfetch' = 1
        /\ IF SubUsesIterator(r) /\ HasNext(r)
           THEN /\ items' = FirstSlice(r)
                /\ pc' = "subsites_next"
                /\ subRet' = NoSubRet
                /\ data' = data
           ELSE SubsitesReturned(id, FirstSlice(r))
    /\ NewIteration
    /\ NotDelivered
    /\ UNCHANGED <<kind, renderVars, ret, fetchFailed>>

\* Iterate of GetSubsites fails on a later page: return subsites, err; continue
GetSubsitesNextFails ==
    /\ pc = "subsites_next"
    /\ UNCHANGED <<ctxVars, pureVars>>
    /\ subRet' = ReturnWithErr("GetSubsites", items)
    /\ items' = <<>>
    /\ pc' = "range"
    /\ NotDelivered
    /\ UNCHANGED <<listed, nrecs, kind, renderVars, data, ret, todo, cur, pageData, left, nfetch,
                   fetchFailed, outcomes>>

\* Iterate of GetSubsites receives a later page
GetSubsitesNext ==
    /\ pc = "subsites_next"
    /\ WithContext
    /\ \E r \in SubResponses(SubsiteIds, nfetch + 1, nrecs) :
        /\ nrecs' = nrecs + Len(r.value)
        /\ nfetch' = nfetch + 1
        /\ IF HasNext(r)
           THEN /\ items' = Append_All(items, r)
                /\ pc' = "subsites_next"
                /\ UNCHANGED <<data, subRet>>
           ELSE SubsitesReturned(cur, Append_All(items, r))
    /\ NotDelivered
    /\ UNCHANGED <<listed, kind, renderVars, ret, todo, cur, pageData, left, fetchFailed, outcomes>>

\* GetPages returned without error: Get renders each page; with no page the
\* empty pageData is stored at once
PagesReturned(slice) ==
    /\ subRet' = NoSubRet
    /\ listed' = IdsOf(slice)
    /\ items' = <<>>
    /\ left' = slice
    /\ pageData' = EmptyMap
    /\ IF slice = <<>>
       THEN /\ data' = SetSiteAttr(data, cur, "pages", EmptyMap)
            /\ pc' = "range"
       ELSE /\ data' = data
            /\ pc' = "content"

\* GetPages fails on its first fetch: continue
GetPagesFetchFails ==
    /\ pc = "pages"
    /\ UNCHANGED <<ctxVars, pureVars>>
    /\ subRet' = ReturnNilErr("GetPages")
    /\ pc' = "range"
    /\ nfetch' = 0
    /\ NotDelivered
    /\ UNCHANGED <<listed, nrecs, kind, renderVars, data, ret, todo, cur, items, pageData, left,
                   fetchFailed, outcomes>>

\* the first response of GetPages arrives
GetPagesFetch ==
    /\ pc = "pages"
    /\ WithContext
    /\ \E r \in SubResponses(PageIds, 1, 0) :
        /\ nrecs' = Len(r.value)
        /\ nfetch' = 1
        /\ IF SubUsesIterator(r) /\ HasNext(r)
           THEN /\ items' = FirstSlice(r)
                /\ pc' = "pages_next"
                /\ UNCHANGED <<data, subRet, listed, left, pageData>>
           ELSE PagesReturned(FirstSlice(r))
    /\ NotDelivered
    /\ UNCHANGED <<kind, renderVars, ret, todo, cur, fetchFailed, outcomes>>

\* Iterate of GetPages fails on a later page: return pages, err; continue
GetPagesNextFails ==
    /\ pc = "pages_next"
    /\ UNCHANGED <<ctxVars, pureVars>>
    /\ subRet' = ReturnWithErr("GetPages", items)
    /\ items' = <<>>
    /\ pc' = "range"
    /\ NotDelivered
    /\ UNCHANGED <<listed, nrecs, kind, renderVars, data, ret, todo, cur, pageData, left, nfetch,
                   fetchFailed, outcomes>>

\* Iterate of GetPages receives a later page
GetPagesNext ==
    /\ pc = "pages_next"
    /\ WithContext
    /\ \E r \in SubResponses(PageIds, nfetch + 1, nrecs) :
        /\ nrecs' = nrecs + Len(r.value)
        /\ nfetch' = nfetch + 1
        /\ IF HasNext(r)
           THEN /\ items' = Append_All(items, r)
                /\ pc' = "pages_next"
                /\ UNCHANGED <<data, subRet, listed, left, pageData>>
           ELSE PagesReturned(Append_All(items, r))
    /\ NotDelivered
    /\ UNCHANGED <<kind, renderVars, ret, todo, cur, fetchFailed, outcomes>>

-----------------------------------------------------------------------------
(* sites Get: the content of each page *)

\* the literal stored when getPageContent fails
ErrorFetchingContent == <<"Error fetching content">>

\* the document getPageContent returns for a page of a site
RenderedDoc(site, pageId) == <<"doc", site, pageId>>

\* the content stored whether or not getPageContent failed
WithContentIgnoringErr(pageInfo, ok, content) == Upsert(pageInfo, "content", content)

\* pageInfo["content"] = content, or the literal when err != nil
WithContent(pageInfo, ok, content) ==
    Upsert(pageInfo, "content", IF ok THEN content ELSE ErrorFetchingContent)

\* one iteration of the loop over pages: render the page, store its entry;
\* after the last page the pageData is stored in the site
PageVisited(ok) ==
    LET c == convertSitePageToMap(Head(left))
        pd == Upsert(pageData, c.key, WithContent(c.map, ok, RenderedDoc(cur, c.key)))
    IN /\ outcomes' = outcomes \cup {<<c.key, IF ok THEN "ok" ELSE "fail">>}
       /\ pageData' = pd
       /\ left' = Tail(left)
       /\ IF Tail(left) = <<>>
          THEN /\ data' = SetSiteAttr(data, cur, "pages", pd)
               /\ pc' = "range"
          ELSE /\ data' = data
               /\ pc' = "content"

GetPageContentOk ==
    /\ pc = "content"
    /\ WithBackground
    /\ PageVisited(TRUE)
    /\ NotDelivered
    /\ UNCHANGED <<listed, nrecs, kind, renderVars, ret, todo, cur, items, subRet, nfetch, fetchFailed>>

GetPageContentFails ==
    /\ pc = "content"
    /\ UNCHANGED <<ctxVars, pureVars>>
    /\ PageVisited(FALSE)
    /\ NotDelivered
    /\ UNCHANGED <<listed, nrecs, kind, renderVars, ret, todo, cur, items, subRet, nfetch, fetchFailed>>

\* the range loop is over: return json.MarshalIndent(sitesData, "", "  ")
GetReturn ==
    /\ pc = "range"
    /\ UNCHANGED <<ctxVars, pureVars>>
    /\ todo = {}
    /\ ret' = MarshalIndent(data)
    /\ pc' = "done"
    /\ NotDelivered
    /\ UNCHANGED <<listed, nrecs, kind, renderVars, data, todo, cur, items, subRet, pageData, left,
                   nfetch, fetchFailed, outcomes>>

-----------------------------------------------------------------------------
(* Strings as sequences of characters *)

\* the grave accent (U+0060), which a string of this module cannot hold
Backtick == "grave"

Min(S) == CHOOSE x \in S : \A y \in S : x <= y
Max(S) == CHOOSE x \in S : \A y \in S : x >= y

\* the least element of a set of indices, 0 when it is empty
LeastOr0(S) == IF S = {} THEN 0 ELSE Min(S)

\* s[i:]
From(s, i) == SubSeq(s, i, Len(s))

\* s[i:] starts with pat
StartsWithAt(s, i, pat) ==
    /\ i >= 1
    /\ i + Len(pat) - 1 <= Len(s)
    /\ SubSeq(s, i, i + Len(pat) - 1) = pat

\* the first index k >= i at which pat starts, 0 when there is none
IndexFrom(s, i, pat) == LeastOr0({k \in i..Len(s) : StartsWithAt(s, k, pat)})

NoNewline(s, from, to) == \A j \in from..to : s[j] # "\n"

RECURSIVE Concat(_)
Concat(ss) == IF ss = <<>> THEN <<>> ELSE Head(ss) \o Concat(Tail(ss))

\* The operators over a whole string return the empty string as it is: there
\* is nothing in it to find or to replace.

\* strings.Replace(s, old, new, -1) from index i on, the next old being at k
RECURSIVE ReplaceFrom(_, _, _, _)
ReplaceAt(s, i, k, old, new) ==
    IF k = 0 THEN From(s, i)
    ELSE SubSeq(s, i, k - 1) \o new \o ReplaceFrom(s, k + Len(old), old, new)

ReplaceFrom(s, i, old, new) == ReplaceAt(s, i, IndexFrom(s, i, old), old, new)

ReplaceAllLiteral(s, old, new) ==
    IF s = <<>> THEN s ELSE ReplaceFrom(s, 1, old, new)

\* strings.Replace(s, old, new, 1)
ReplaceFirstAt(s, k, old, new) ==
    IF k = 0 \/ old = <<>> THEN s
    ELSE SubSeq(s, 1, k - 1) \o new \o From(s, k + Len(old))

ReplaceFirst(s, old, new) == ReplaceFirstAt(s, IndexFrom(s, 1, old), old, new)

\* the characters strings.TrimSpace removes
WhiteSpace == {" ", "\n", "\t", "\r"}

RECURSIVE TrimLeft(_)
TrimLeft(s) ==
    IF s # <<>> /\ Head(s) \in WhiteSpace THEN TrimLeft(Tail(s)) ELSE s

RECURSIVE TrimRight(_)
TrimRight(s) ==
    IF s # <<>> /\ s[Len(s)] \in WhiteSpace
    THEN TrimRight(SubSeq(s, 1, Len(s) - 1)) ELSE s

TrimSpace(s) == TrimRight(TrimLeft(s))

\* the decimal digits of fmt.Sprintf("%d", n), n >= 0
Digits == <<"0", "1", "2", "3", "4", "5", "6", "7", "8", "9">>

RECURSIVE Itoa(_)
Itoa(n) ==
    IF n < 10 THEN <<Digits[n + 1]>>
    ELSE Itoa(n \div 10) \o <<Digits[(n % 10) + 1]>>

-----------------------------------------------------------------------------
(* The regular expressions of htmlToMarkdown *)

\* open[^>]*> at index i: the index of the closing ">", 0 when it does not match
TagEnd(s, i, open) ==
    IF StartsWithAt(s, i, open) THEN IndexFrom(s, i + Len(open), <<">">>) ELSE 0

\* a match of open[^>]*>(.*?)close: where it starts and ends, and its group
NoMatch == [ok |-> FALSE, at |-> 0, from |-> 0, to |-> 0, end |-> 0]

\* ... with the ">" of the opening tag at gt and the first close after it at
\* k: "." does not match a newline, and the lazy group ends at the first close
PairTo(s, i, gt, k, close) ==
    [ok |-> k # 0 /\ NoNewline(s, gt + 1, k - 1),
     at |-> i, from |-> gt + 1, to |-> k - 1, end |-> k + Len(close) - 1]

PairFrom(s, i, gt, close) ==
    IF gt = 0 THEN NoMatch ELSE PairTo(s, i, gt, IndexFrom(s, gt + 1, close), close)

\* open[^>]*>(.*?)close at index i
PairMatch(s, i, open, close) == PairFrom(s, i, TagEnd(s, i, open), close)

\* the first of the alternatives opens (in order) whose pattern matches at i;
\* 0 when none does
FirstOpen(s, i, opens, close) ==
    LeastOr0({n \in 1..Len(opens) : PairMatch(s, i, opens[n], close).ok})

MatchBy(s, i, opens, n, close) ==
    IF n = 0 THEN NoMatch ELSE PairMatch(s, i, opens[n], close)

\* <(o1|o2)[^>]*>(.*?)close at index i
MatchAt(s, i, opens, close) ==
    MatchBy(s, i, opens, FirstOpen(s, i, opens, close), close)

\* the leftmost match that starts at index i or later
NextMatch(s, i, opens, close) ==
    MatchAt(s, LeastOr0({k \in i..Len(s) : MatchAt(s, k, opens, close).ok}), opens, close)

\* regexp.ReplaceAllString for <(o1|o2)[^>]*>(.*?)close with the template
\* pre $group post, from index i on, the next match being m
RECURSIVE ReplacePairsFrom(_, _, _, _, _, _)
ReplacePairAt(s, i, m, opens, close, pre, post) ==
    IF ~m.ok THEN From(s, i)
    ELSE SubSeq(s, i, m.at - 1) \o pre \o SubSeq(s, m.from, m.to) \o post
             \o ReplacePairsFrom(s, m.end + 1, opens, close, pre, post)

ReplacePairsFrom(s, i, opens, close, pre, post) ==
    ReplacePairAt(s, i, NextMatch(s, i, opens, close), opens, close, pre, post)

ReplacePairs(s, opens, close, pre, post) ==
    IF s = <<>> THEN s ELSE ReplacePairsFrom(s, 1, opens, close, pre, post)

\* whether the pattern matches anywhere
MatchesPairs(s, opens, close) == NextMatch(s, 1, opens, close).ok

\* regexp.ReplaceAllString for open[^>]*> with a literal replacement, from
\* index i on, the next match being at k
RECURSIVE ReplaceTagsFrom(_, _, _, _)
ReplaceTagAt(s, i, k, open, new) ==
    IF k = 0 THEN From(s, i)
    ELSE SubSeq(s, i, k - 1) \o new \o ReplaceTagsFrom(s, TagEnd(s, k, open) + 1, open, new)

ReplaceTagsFrom(s, i, open, new) ==
    ReplaceTagAt(s, i, LeastOr0({k \in i..Len(s) : TagEnd(s, k, open) # 0}), open, new)

ReplaceTags(s, open, new) ==
    IF s = <<>> THEN s ELSE ReplaceTagsFrom(s, 1, open, new)

\* the length of the run of newlines that starts at index i
RECURSIVE NewlineRun(_, _)
NewlineRun(s, i) ==
    IF i <= Len(s) /\ s[i] = "\n" THEN 1 + NewlineRun(s, i + 1) ELSE 0

\* regexp.ReplaceAllString for \n{3,} with "\n\n", from index i on, the next
\* run of three newlines or more being at k
RECURSIVE CollapseFrom(_, _)
CollapseAt(s, i, k) ==
    IF k = 0 THEN From(s, i)
    ELSE SubSeq(s, i, k - 1) \o <<"\n", "\n">> \o CollapseFrom(s, k + NewlineRun(s, k))

CollapseFrom(s, i) == CollapseAt(s, i, IndexFrom(s, i, <<"\n", "\n", "\n">>))

\* a last stage that keeps the runs of newlines
CollapseNothing(s) == s

CollapseNewlines(s) == IF s = <<>> THEN s ELSE CollapseFrom(s, 1)

-----------------------------------------------------------------------------
(* html.UnescapeString, for the named entities of Entities; the strings of
   the model hold no numeric reference and no other entity name *)

Entities == <<[name |-> <<"l", "t">>, char |-> "<"], [name |-> <<"g", "t">>, char |-> ">"],
              [name |-> <<"a", "m", "p">>, char |-> "&"], [name |-> <<"q", "u", "o", "t">>, char |-> "\""]>>

AlphaNum == {"a", "b", "c", "d", "e", "f", "g", "h", "i", "j", "k", "l", "m",
             "n", "o", "p", "q", "r", "s", "t", "u", "v", "w", "x", "y", "z",
             "A", "B", "C", "D", "E", "F", "G", "H", "I", "J", "K", "L", "M",
             "N", "O", "P", "Q", "R", "S", "T", "U", "V", "W", "X", "Y", "Z",
             "0", "1", "2", "3", "4", "5", "6", "7", "8", "9"}

\* the length of the run of letters and digits that starts at index i
RECURSIVE NameRun(_, _)
NameRun(s, i) ==
    IF i <= Len(s) /\ s[i] \in AlphaNum THEN 1 + NameRun(s, i + 1) ELSE 0

\* an entity read at an "&": how many characters it takes and the character
\* it stands for; len = 0 when there is none
NoEntity == [len |-> 0, char |-> ""]

\* the entities whose name is a prefix of name, of two characters at least
\* and maxLen at most
Prefixes(name, maxLen) ==
    {n \in 1..Len(Entities) :
        /\ Len(Entities[n].name) > 1
        /\ Len(Entities[n].name) <= maxLen
        /\ Len(Entities[n].name) <= Len(name)
        /\ SubSeq(name, 1, Len(Entities[n].name)) = Entities[n].name}

Longest(prefixes) ==
    CHOOSE n \in prefixes :
        \A k \in prefixes : Len(Entities[k].name) <= Len(Entities[n].name)

\* the name read after the "&" (semi: a ";" follows it) is looked up whole,
\* and then by its longest prefix
EntityFrom(name, semi, whole, prefixes) ==
    IF name = <<>> THEN NoEntity
    ELSE IF whole # {}
         THEN [len |-> 1 + Len(name) + (IF semi THEN 1 ELSE 0),
               char |-> Entities[Min(whole)].char]
         ELSE IF prefixes # {}
              THEN [len |-> 1 + Len(Entities[Longest(prefixes)].name),
                    char |-> Entities[Longest(prefixes)].char]
              ELSE NoEntity

\* a prefix is shorter than the text read (the name and its ";"), and of six
\* characters at most
EntityNamed(name, semi) ==
    EntityFrom(name, semi,
               {n \in 1..Len(Entities) : Entities[n].name = name},
               Prefixes(name, IF semi
                              THEN (IF Len(name) > 6 THEN 6 ELSE Len(name))
                              ELSE (IF Len(name) - 1 > 6 THEN 6 ELSE Len(name) - 1)))

EntityRun(s, i, run) ==
    EntityNamed(SubSeq(s, i + 1, i + run),
                i + 1 + run <= Len(s) /\ s[i + 1 + run] = ";")

\* the entity at the "&" of index i
EntityAt(s, i) == EntityRun(s, i, NameRun(s, i + 1))

RECURSIVE UnescapeFrom(_, _)
UnescapeWith(s, i, k, e) ==
    SubSeq(s, i, k - 1) \o <<e.char>> \o UnescapeFrom(s, k + e.len)

UnescapeAt(s, i, k) ==
    IF k = 0 THEN From(s, i) ELSE UnescapeWith(s, i, k, EntityAt(s, k))

\* from index i on, the next entity being at k
UnescapeFrom(s, i) ==
    UnescapeAt(s, i, LeastOr0({k \in i..Len(s) : s[k] = "&" /\ EntityAt(s, k).len > 0}))

UnescapeString(s) == IF s = <<>> THEN s ELSE UnescapeFrom(s, 1)

-----------------------------------------------------------------------------
(* htmlToMarkdown, stage by stage *)

\* the indices p >= from at which attr starts, with no ">" in s[from..p-1]
AttrStartsTo(s, from, attr, gt) ==
    {p \in from..(IF gt = 0 THEN Len(s) ELSE gt) : StartsWithAt(s, p, attr)}

AttrStarts(s, from, attr) == AttrStartsTo(s, from, attr, IndexFrom(s, from, <<">">>))

\* <a[^>]*href="([^"]*)"[^>]*>(.*?)</a> with href=" at index p, its closing
\* quote at q, the ">" of the tag at gt and the first </a> at k
NoLinkMatch == [ok |-> FALSE, href |-> <<>>, text |-> <<>>, end |-> 0]

LinkText(s, p, q, gt, k) ==
    [ok |-> k # 0 /\ NoNewline(s, gt + 1, k - 1),
     href |-> SubSeq(s, p + 6, q - 1),
     text |-> SubSeq(s, gt + 1, k - 1),
     end |-> k + 3]

LinkTag(s, p, q, gt) ==
    IF gt = 0 THEN NoLinkMatch ELSE LinkText(s, p, q, gt, IndexFrom(s, gt + 1, <<"<", "/", "a", ">">>))

LinkValue(s, p, q) ==
    IF q = 0 THEN NoLinkMatch ELSE LinkTag(s, p, q, IndexFrom(s, q + 1, <<">">>))

LinkRest(s, p) == LinkValue(s, p, IndexFrom(s, p + 6, <<"\"">>))

\* the greedy [^>]* takes the last href=" with which the rest matches
LastLink(s, ps) == IF ps = {} THEN NoLinkMatch ELSE LinkRest(s, Max(ps))

\* the match of linkRegex at index i
LinkMatch(s, i) ==
    IF StartsWithAt(s, i, <<"<", "a">>)
    THEN LastLink(s, {p \in AttrStarts(s, i + 2, <<"h", "r", "e", "f", "=", "\"">>) : LinkRest(s, p).ok})
    ELSE NoLinkMatch

RECURSIVE ReplaceLinksFrom(_, _)
ReplaceLinkWith(s, i, k, m) ==
    SubSeq(s, i, k - 1) \o <<"[">> \o m.text \o <<"]", "(">> \o m.href \o <<")">>
        \o ReplaceLinksFrom(s, m.end + 1)

ReplaceLinkAt(s, i, k) ==
    IF k = 0 THEN From(s, i) ELSE ReplaceLinkWith(s, i, k, LinkMatch(s, k))

ReplaceLinksFrom(s, i) ==
    ReplaceLinkAt(s, i, LeastOr0({k \in i..Len(s) : LinkMatch(s, k).ok}))

ReplaceLinks(s) == IF s = <<>> THEN s ELSE ReplaceLinksFrom(s, 1)

\* <img[^>]*src="([^"]*)"[^>]*alt="([^"]*)"[^>]*> with alt=" at index p2,
\* its closing quote at q2 and the ">" of the tag at gt
NoImgMatch == [ok |-> FALSE, src |-> <<>>, alt |-> <<>>, end |-> 0]

AltTag(s, p2, q2, gt) == [ok |-> gt # 0, alt |-> SubSeq(s, p2 + 5, q2 - 1), end |-> gt]

AltValue(s, p2, q2) ==
    IF q2 = 0 THEN [ok |-> FALSE, alt |-> <<>>, end |-> 0]
    ELSE AltTag(s, p2, q2, IndexFrom(s, q2 + 1, <<">">>))

AltRest(s, p2) == AltValue(s, p2, IndexFrom(s, p2 + 5, <<"\"">>))

\* ... with src=" at index p, its closing quote at q, and the last alt="
\* with which the rest matches
LastAlt(s, p, q, p2s) ==
    IF p2s = {} THEN NoImgMatch
    ELSE [ok |-> TRUE, src |-> SubSeq(s, p + 5, q - 1)] @@ AltRest(s, Max(p2s))

SrcValue(s, p, q) ==
    IF q = 0 THEN NoImgMatch
    ELSE LastAlt(s, p, q, {p2 \in AttrStarts(s, q + 1, <<"a", "l", "t", "=", "\"">>) : AltRest(s, p2).ok})

SrcRest(s, p) == SrcValue(s, p, IndexFrom(s, p + 5, <<"\"">>))

LastSrc(s, ps) == IF ps = {} THEN NoImgMatch ELSE SrcRest(s, Max(ps))

\* the match of imgRegex at index i
ImgMatch(s, i) ==
    IF StartsWithAt(s, i, <<"<", "i", "m", "g">>)
    THEN LastSrc(s, {p \in AttrStarts(s, i + 4, <<"s", "r", "c", "=", "\"">>) : SrcRest(s, p).ok})
    ELSE NoImgMatch

RECURSIVE ReplaceImagesFrom(_, _)
ReplaceImageWith(s, i, k, m) ==
    SubSeq(s, i, k - 1) \o <<"!", "[">> \o m.alt \o <<"]", "(">> \o m.src \o <<")">>
        \o ReplaceImagesFrom(s, m.end + 1)

ReplaceImageAt(s, i, k) ==
    IF k = 0 THEN From(s, i) ELSE ReplaceImageWith(s, i, k, ImgMatch(s, k))

ReplaceImagesFrom(s, i) ==
    ReplaceImageAt(s, i, LeastOr0({k \in i..Len(s) : ImgMatch(s, k).ok}))

ReplaceImages(s) == IF s = <<>> THEN s ELSE ReplaceImagesFrom(s, 1)

\* regexp.FindAllStringSubmatch for open[^>]*>(.*?)close: the matches in
\* order, each with its whole text and its group
RECURSIVE FindAllFrom(_, _, _, _)
FindAllWith(s, m, open, close) ==
    IF ~m.ok THEN <<>>
    ELSE <<[full |-> SubSeq(s, m.at, m.end), group |-> SubSeq(s, m.from, m.to)]>>
             \o FindAllFrom(s, m.end + 1, open, close)

FindAllFrom(s, i, open, close) == FindAllWith(s, NextMatch(s, i, <<open>>, close), open, close)

FindAll(s, open, close) == FindAllFrom(s, 1, open, close)

\* "| cell " for every cell, then "|\n"
RECURSIVE CellsRow(_)
CellsRow(cells) ==
    IF cells = <<>> THEN <<"|", "\n">>
    ELSE <<"|", " ">> \o TrimSpace(Head(cells).group) \o <<" ">> \o CellsRow(Tail(cells))

\* a separator row without cells
NoSeparatorRow(n) == <<"|", "\n">>

\* "| --- " n times, then "|\n"
RECURSIVE SeparatorRow(_)
SeparatorRow(n) == IF n = 0 THEN <<"|", "\n">> ELSE <<"|", " ", "-", "-", "-", " ">> \o SeparatorRow(n - 1)

\* "| Column i " for i = from..n, then "|\n"
RECURSIVE ColumnRow(_, _)
ColumnRow(from, n) ==
    IF from > n THEN <<"|", "\n">>
    ELSE <<"|", " ", "C", "o", "l", "u", "m", "n", " ">> \o Itoa(from) \o <<" ">> \o ColumnRow(from + 1, n)

\* the header of the table: the th cells of the first row, or numbered
\* columns by its td cells
HeaderOf(headerCells, firstRowCells) ==
    IF headerCells # <<>>
    THEN CellsRow(headerCells) \o SeparatorRow(Len(headerCells))
    ELSE ColumnRow(1, Len(firstRowCells)) \o SeparatorRow(Len(firstRowCells))

HeaderRows(rows) ==
    IF rows = <<>> THEN <<>>
    ELSE HeaderOf(FindAll(rows[1].group, <<"<", "t", "h">>, <<"<", "/", "t", "h", ">">>),
                  FindAll(rows[1].group, <<"<", "t", "d">>, <<"<", "/", "t", "d", ">">>))

\* the data rows: every row, the first included, by its td cells
RECURSIVE DataRows(_)
DataRows(rows) ==
    IF rows = <<>> THEN <<>>
    ELSE CellsRow(FindAll(Head(rows).group, <<"<", "t", "d">>, <<"<", "/", "t", "d", ">">>)) \o DataRows(Tail(rows))

TableOf(rows) == HeaderRows(rows) \o DataRows(rows)

mdTable(tableContent) == TableOf(FindAll(tableContent, <<"<", "t", "r">>, <<"<", "/", "t", "r", ">">>))

RECURSIVE ReplaceTablesIn(_, _)
ReplaceTablesIn(s, tableMatches) ==
    IF tableMatches = <<>> THEN s
    ELSE ReplaceTablesIn(
             ReplaceFirst(s, Head(tableMatches).full, mdTable(Head(tableMatches).group)),
             Tail(tableMatches))

ReplaceTables(s) ==
    IF s = <<>> THEN s ELSE ReplaceTablesIn(s, FindAll(s, <<"<", "t", "a", "b", "l", "e">>, <<"<", "/", "t", "a", "b", "l", "e", ">">>))

\* for divRegex.MatchString(s) { s = divRegex.ReplaceAllString(s, "$2") }
RECURSIVE UnwrapDivs(_)
UnwrapDivs(s) ==
    IF s # <<>> /\ MatchesPairs(s, <<<<"<", "d", "i", "v">>, <<"<", "s", "p", "a", "n">>>>, <<"<", "/", "\\", "1", ">">>)
    THEN UnwrapDivs(ReplacePairs(s, <<<<"<", "d", "i", "v">>, <<"<", "s", "p", "a", "n">>>>, <<"<", "/", "\\", "1", ">">>, <<>>, <<>>))
    ELSE s

\* a heading stage that writes no marks
HeadingUnmarked(s, open, close, marks) == ReplacePairs(s, <<open>>, close, <<>>, <<"\n", "\n">>)

Heading(s, open, close, marks) == ReplacePairs(s, <<open>>, close, marks, <<"\n", "\n">>)

Headings(s) ==
    Heading(Heading(Heading(Heading(s, <<"<", "h", "1">>, <<"<", "/", "h", "1", ">">>, <<"#", " ">>),
                            <<"<", "h", "2">>, <<"<", "/", "h", "2", ">">>, <<"#", "#", " ">>),
                    <<"<", "h", "3">>, <<"<", "/", "h", "3", ">">>, <<"#", "#", "#", " ">>),
            <<"<", "h", "4">>, <<"<", "/", "h", "4", ">">>, <<"#", "#", "#", "#", " ">>)

Paragraphs(s) == ReplacePairs(s, <<<<"<", "p">>>>, <<"<", "/", "p", ">">>, <<>>, <<"\n", "\n">>)

\* the closing tag of the pattern is the text </\1>, not a back-reference
Bold(s) == ReplacePairs(s, <<<<"<", "b">>, <<"<", "s", "t", "r", "o", "n", "g">>>>, <<"<", "/", "\\", "1", ">">>, <<"*", "*">>, <<"*", "*">>)

Italic(s) == ReplacePairs(s, <<<<"<", "i">>, <<"<", "e", "m">>>>, <<"<", "/", "\\", "1", ">">>, <<"*">>, <<"*">>)

\* the list tags become newlines, and the items get their marker
ListItems(s, open, close, marker) ==
    ReplacePairs(ReplaceAllLiteral(ReplaceAllLiteral(s, open, <<"\n">>), close, <<"\n">>),
                 <<<<"<", "l", "i">>>>, <<"<", "/", "l", "i", ">">>, marker, <<"\n">>)

UnorderedLists(s) == ListItems(s, <<"<", "u", "l", ">">>, <<"<", "/", "u", "l", ">">>, <<"-", " ">>)

OrderedLists(s) == ListItems(s, <<"<", "o", "l", ">">>, <<"<", "/", "o", "l", ">">>, <<"1", ".", " ">>)

CodeBlocks(s) ==
    ReplacePairs(ReplacePairs(s, <<<<"<", "p", "r", "e">>>>, <<"<", "/", "p", "r", "e", ">">>, <<Backtick, Backtick, Backtick, "\n">>, <<"\n", Backtick, Backtick, Backtick, "\n", "\n">>),
                 <<<<"<", "c", "o", "d", "e">>>>, <<"<", "/", "c", "o", "d", "e", ">">>, <<Backtick>>, <<Backtick>>)

Blockquotes(s) == ReplacePairs(s, <<<<"<", "b", "l", "o", "c", "k", "q", "u", "o", "t", "e">>>>, <<"<", "/", "b", "l", "o", "c", "k", "q", "u", "o", "t", "e", ">">>, <<">", " ">>, <<"\n", "\n">>)

HorizontalRules(s) == ReplaceTags(s, <<"<", "h", "r">>, <<"-", "-", "-", "\n", "\n">>)

Breaks(s) == ReplaceTags(s, <<"<", "b", "r">>, <<"\n">>)

\* a stage that removes no tag
StripNothing(s) == s

\* tagRegex <[^>]*>, every match removed: "[^>]" matches a newline too
StripTags(s) == ReplaceTags(s, <<"<">>, <<>>)

htmlToMarkdown(htmlContent) ==
    CollapseNewlines(TrimSpace(StripTags(Breaks(UnwrapDivs(
        HorizontalRules(Blockquotes(CodeBlocks(
            ReplaceTables(ReplaceImages(
                OrderedLists(UnorderedLists(
                    ReplaceLinks(Italic(Bold(Paragraphs(Headings(
                        UnescapeString(htmlContent))))))))))))))))))

-----------------------------------------------------------------------------
(* Web parts and the values of their properties *)

\* a value of the backing store or of the additional data: a string, a map,
\* or a value of another type (a number)
String(s) == [t |-> "string", s |-> s]
Number == [t |-> "number"]
Map(m) == [t |-> "map", m |-> m]

\* a backing store or an additional-data map that may be nil
Nil == [isNil |-> TRUE, entries |-> EmptyMap]
Entries(m) == [isNil |-> FALSE, entries |-> m]

Formats == {"markdown", "plain"}

\* what the content lookup of one web part did: whether it found content, the
\* property it came from (and the field of the data map), the content, and
\* the text it wrote to contentBuilder
NotFoundNoted ==
    [found |-> FALSE, source |-> "", field |-> "", content |-> <<>>,
     text |-> <<"*", "N", "o", " ", "r", "e", "a", "d", "a", "b", "l", "e", " ", "c", "o", "n", "t", "e", "n", "t", " ", "f", "o", "u", "n", "d", " ", "f", "o", "r", " ", "t", "h", "i", "s", " ", "w", "e", "b", " ", "p", "a", "r", "t", ".", "*", "\n", "\n">>]

NotFound == [found |-> FALSE, source |-> "", field |-> "", content |-> <<>>, text |-> <<>>]

\* the text written for found content: the content and a blank line in
\* markdown, an indented labelled line otherwise
Written(fmt, indent, label, content) ==
    IF fmt = "markdown" THEN content \o <<"\n", "\n">>
    ELSE indent \o label \o <<":", " ">> \o content \o <<"\n">>

Found(fmt, indent, source, field, label, content) ==
    [found |-> TRUE, source |-> source, field |-> field, content |-> content,
     text |-> Written(fmt, indent, label, content)]

\* HTML is converted in markdown and written as it is otherwise
FromHtml(fmt, htmlStr) ==
    IF fmt = "markdown" THEN htmlToMarkdown(htmlStr) ELSE htmlStr

IsString(m, key) == key \in DOMAIN m /\ m[key].t = "string"

\* backingStore.Get("innerHtml") of a web part in a column
BackingStoreInnerHtml(part, fmt, indent) ==
    LET backingStore == part.backingStore
    IN IF ~backingStore.isNil /\ IsString(backingStore.entries, "innerHtml")
       THEN Found(fmt, indent, "backingStore.innerHtml", "", <<"C", "o", "n", "t", "e", "n", "t">>,
                  FromHtml(fmt, backingStore.entries["innerHtml"].s))
       ELSE NotFound

\* additional["innerHtml"]
DataInnerHtml(additional, fmt, indent) ==
    IF IsString(additional, "innerHtml")
    THEN Found(fmt, indent, "innerHtml", "", <<"C", "o", "n", "t", "e", "n", "t">>,
               FromHtml(fmt, additional["innerHtml"].s))
    ELSE NotFound

\* additional["text"]: any string, the empty one included
DataText(additional, fmt, indent) ==
    IF IsString(additional, "text")
    THEN Found(fmt, indent, "text", "", <<"T", "e", "x", "t">>, additional["text"].s)
    ELSE NotFound

\* the fields of the data map, in the order they are tried, and their labels
Fields == <<"text", "content", "value", "description", "html">>
FieldLabels == <<<<"t", "e", "x", "t">>, <<"c", "o", "n", "t", "e", "n", "t">>, <<"v", "a", "l", "u", "e">>, <<"d", "e", "s", "c", "r", "i", "p", "t", "i", "o", "n">>, <<"h", "t", "m", "l">>>>

\* the fields of dataMap that hold a non-empty string
Qualifying(dataMap) ==
    {n \in 1..Len(Fields) : IsString(dataMap, Fields[n]) /\ dataMap[Fields[n]].s # <<>>}

LastQualifying(dataMap) == Max(Qualifying(dataMap))

\* the field the loop over the list breaks at
FirstQualifying(dataMap) == Min(Qualifying(dataMap))

\* the field n of the data map: html is converted in markdown
DataMapFieldAt(n, strVal, fmt, indent) ==
    Found(fmt, indent, "data", Fields[n], FieldLabels[n],
          IF fmt = "markdown" /\ Fields[n] = "html"
          THEN htmlToMarkdown(strVal) ELSE strVal)

\* the data map: the first field with a non-empty string
DataMapField(dataMap, fmt, indent) ==
    IF Qualifying(dataMap) = {} THEN NotFound
    ELSE DataMapFieldAt(FirstQualifying(dataMap),
                        dataMap[Fields[FirstQualifying(dataMap)]].s, fmt, indent)

\* additional["data"]: a map, or a non-empty string
DataData(additional, fmt, indent) ==
    IF "data" \notin DOMAIN additional THEN NotFound
    ELSE IF additional["data"].t = "map" THEN DataMapField(additional["data"].m, fmt, indent)
    ELSE IF additional["data"].t = "string" /\ additional["data"].s # <<>>
         THEN Found(fmt, indent, "data", "", <<"D", "a", "t", "a">>, additional["data"].s)
         ELSE NotFound

OrElse(a, b) == IF a.found THEN a ELSE b

\* the lookups in the additional data of a web part, in order
AdditionalDataContent(additional, fmt, indent) ==
    OrElse(DataInnerHtml(additional, fmt, indent),
           OrElse(DataText(additional, fmt, indent), DataData(additional, fmt, indent)))

ColumnIndent == <<" ", " ", " ", " ", " ", " ">>
VerticalIndent == <<" ", " ", " ", " ">>

\* a web part of a column: the backing store, then the additional data
ColumnWebPartContent(part, fmt) ==
    OrElse(BackingStoreInnerHtml(part, fmt, ColumnIndent),
           IF part.additionalData.isNil THEN NotFound
           ELSE AdditionalDataContent(part.additionalData.entries, fmt, ColumnIndent))

\* a web part of the vertical section: the additional data only
VerticalWebPartContent(part, fmt) ==
    IF part.additionalData.isNil THEN NotFound
    ELSE AdditionalDataContent(part.additionalData.entries, fmt, VerticalIndent)

WebPartContent(place, part, fmt) ==
    IF place = "column" THEN ColumnWebPartContent(part, fmt)
    ELSE VerticalWebPartContent(part, fmt)

-----------------------------------------------------------------------------
(* getPageContent: the page, its canvas layout and the walk over it *)

\* an optional string attribute (title, description, layout)
NoString == [isNil |-> TRUE, s |-> <<>>]
StringPtr(s) == [isNil |-> FALSE, s |-> s]

Titles == {NoString, StringPtr(<<"H", "o", "m", "e">>)}
Descriptions == {NoString, StringPtr(<<"I", "n", "t", "r", "o">>)}
Layouts == {NoString, StringPtr(<<"o", "n", "e", "C", "o", "l", "u", "m", "n">>)}

\* a list of the layout that may be nil, by its length
NilList == [isNil |-> TRUE, len |-> 0]
Lists(n) == {NilList} \cup {[isNil |-> FALSE, len |-> k] : k \in 0..n}

\* the web parts the pages of the walk hold: a text web part with innerHtml
\* in its backing store and a text in its additional data, and a web part
\* with nothing readable
WalkWebParts ==
    {[type |-> <<"*", "m", "o", "d", "e", "l", "s", ".", "T", "e", "x", "t", "W", "e", "b", "P", "a", "r", "t">>,
      backingStore |-> Entries([innerHtml |-> String(<<"<", "p", ">", "A", "<", "/", "p", ">">>)]),
      additionalData |-> Entries([text |-> String(<<"B">>)])],
     [type |-> <<"*", "m", "o", "d", "e", "l", "s", ".", "S", "t", "a", "n", "d", "a", "r", "d", "W", "e", "b", "P", "a", "r", "t">>,
      backingStore |-> Entries(EmptyMap),
      additionalData |-> Entries([title |-> String(<<"N", "e", "w", "s">>)])]}

Markdown(text) == IF format = "markdown" THEN text ELSE <<>>
Plain(text) == IF format = "markdown" THEN <<>> ELSE text
PlainIf(cond, text) == IF format # "markdown" /\ cond THEN text ELSE <<>>

NoResult == [returned |-> FALSE, content |-> <<>>, err |-> FALSE, panic |-> FALSE]

Fallback ==
    IF format = "markdown"
    THEN <<"*", "N", "o", " ", "d", "e", "t", "a", "i", "l", "e", "d", " ", "c", "o", "n", "t", "e", "n", "t", " ", "a", "v", "a", "i", "l", "a", "b", "l", "e", ".", " ", "U", "s", "e", " ", "t", "h", "e", " ", "p", "a", "g", "e", " ", "U", "R", "L", " ", "t", "o", " ", "v", "i", "e", "w", " ", "i", "n", " ", "b", "r", "o", "w", "s", "e", "r", ".", "*">>
    ELSE <<"N", "o", " ", "d", "e", "t", "a", "i", "l", "e", "d", " ", "c", "o", "n", "t", "e", "n", "t", " ", "a", "v", "a", "i", "l", "a", "b", "l", "e", ".", " ", "U", "s", "e", " ", "t", "h", "e", " ", "p", "a", "g", "e", " ", "U", "R", "L", " ", "t", "o", " ", "v", "i", "e", "w", " ", "i", "n", " ", "b", "r", "o", "w", "s", "e", "r", ".">>

\* the text written before the sections: title, description, and the headers
\* of the canvas layout
TitleText(title) ==
    IF title.isNil THEN <<>>
    ELSE IF format = "markdown" THEN <<"#", "#", " ">> \o title.s \o <<"\n", "\n">>
         ELSE <<"T", "i", "t", "l", "e", ":", " ">> \o title.s \o <<"\n">>

DescriptionText(description) ==
    IF description.isNil THEN <<>>
    ELSE IF format = "markdown" THEN <<"*">> \o description.s \o <<"*", "\n", "\n">>
         ELSE <<"D", "e", "s", "c", "r", "i", "p", "t", "i", "o", "n", ":", " ">> \o description.s \o <<"\n">>

\* where the walk goes after the web part list of a column, after the column
\* list of a section, and after the section list
AfterSections == [rpc |-> "vertical", sec |-> 0, col |-> 0, wp |-> 0]

AfterColumns ==
    IF secIdx + 1 < nSecs
    THEN [rpc |-> "section", sec |-> secIdx + 1, col |-> 0, wp |-> 0]
    ELSE AfterSections

AfterWebParts ==
    IF colIdx + 1 < nCols
    THEN [rpc |-> "column", sec |-> secIdx, col |-> colIdx + 1, wp |-> 0]
    ELSE AfterColumns

GoTo(to) ==
    /\ rpc' = to.rpc
    /\ secIdx' = to.sec
    /\ colIdx' = to.col
    /\ wpIdx' = to.wp

\* the lists a canvas layout of MaxColumns columns and MaxBlocks web parts
\* can still hold
ColumnLists == Lists(MaxColumns - opened)
WebPartLists == Lists(MaxBlocks - announced)

\* the request for the page fails
GetPageFails ==
    /\ rpc = "fetch"
    /\ result' = [returned |-> TRUE, content |-> <<>>, err |-> TRUE, panic |-> FALSE]
    /\ rpc' = "done"
    /\ UNCHANGED <<format, opened, contentBuilder, secIdx, nSecs, colIdx, nCols, wpIdx, nWps,
                   announced, trace, webPart, where, resolved, aggVars, ctxVars, pureVars>>

\* the page arrives: title, description, and the start of the canvas layout
GetPage ==
    /\ rpc = "fetch"
    /\ \E title \in Titles, description \in Descriptions,
          canvasLayout \in BOOLEAN, sections \in Lists(MaxSections) :
          /\ contentBuilder' =
                 TitleText(title) \o DescriptionText(description)
                     \o PlainIf(canvasLayout, <<"-", "-", "-", " ", "C", "a", "n", "v", "a", "s", " ", "L", "a", "y", "o", "u", "t", " ", "C", "o", "n", "t", "e", "n", "t", " ", "-", "-", "-", "\n">>)
                     \o PlainIf(canvasLayout /\ ~sections.isNil,
                                <<"N", "u", "m", "b", "e", "r", " ", "o", "f", " ", "h", "o", "r", "i", "z", "o", "n", "t", "a", "l", " ", "s", "e", "c", "t", "i", "o", "n", "s", ":", " ">> \o Itoa(sections.len) \o <<"\n">>)
          /\ nSecs' = IF canvasLayout THEN sections.len ELSE 0
          /\ rpc' = IF ~canvasLayout THEN "return"
                    ELSE IF sections.len > 0 THEN "section" ELSE "vertical"
    /\ UNCHANGED <<format, opened, secIdx, nCols, colIdx, wpIdx, nWps, announced, trace, result,
                   webPart, where, resolved, aggVars, ctxVars, pureVars>>

\* the next horizontal section: the layout name is dereferenced without a
\* nil check when the format is not markdown
Section ==
    /\ rpc = "section"
    /\ \E layout \in Layouts, columns \in ColumnLists :
          IF format # "markdown" /\ layout.isNil
          THEN /\ result' = [returned |-> FALSE, content |-> <<>>, err |-> FALSE, panic |-> TRUE]
               /\ rpc' = "done"
               /\ UNCHANGED <<contentBuilder, secIdx, nCols, colIdx, wpIdx, opened>>
          ELSE /\ contentBuilder' =
                      contentBuilder
                          \o Plain(<<"\n", "S", "e", "c", "t", "i", "o", "n", " ">> \o Itoa(secIdx + 1) \o <<" ", "(", "L", "a", "y", "o", "u", "t", ":", " ">>
                                       \o layout.s \o <<")", ":", "\n">>)
                          \o PlainIf(~columns.isNil,
                                     <<" ", " ", "N", "u", "m", "b", "e", "r", " ", "o", "f", " ", "c", "o", "l", "u", "m", "n", "s", ":", " ">> \o Itoa(columns.len) \o <<"\n">>)
               /\ nCols' = columns.len
               /\ opened' = opened + columns.len
               /\ IF columns.len > 0
                  THEN GoTo([rpc |-> "column", sec |-> secIdx, col |-> 0, wp |-> 0])
                  ELSE GoTo(AfterColumns)
               /\ UNCHANGED result
    /\ UNCHANGED <<format, nSecs, nWps, announced, trace, webPart, where, resolved, aggVars, ctxVars, pureVars>>

\* the next column of the section
Column ==
    /\ rpc = "column"
    /\ \E webParts \in WebPartLists :
          /\ contentBuilder' =
                 contentBuilder
                     \o Plain(<<" ", " ", "C", "o", "l", "u", "m", "n", " ">> \o Itoa(colIdx + 1) \o <<":", "\n">>)
                     \o PlainIf(~webParts.isNil,
                                <<" ", " ", " ", " ", "N", "u", "m", "b", "e", "r", " ", "o", "f", " ", "w", "e", "b", " ", "p", "a", "r", "t", "s", ":", " ">> \o Itoa(webParts.len) \o <<"\n">>)
          /\ nWps' = webParts.len
          /\ announced' = announced + webParts.len
          /\ IF webParts.len > 0
             THEN GoTo([rpc |-> "webpart", sec |-> secIdx, col |-> colIdx, wp |-> 0])
             ELSE GoTo(AfterWebParts)
    /\ UNCHANGED <<format, opened, nSecs, nCols, trace, result, webPart, where, resolved, aggVars, ctxVars, pureVars>>

\* one entry of the history of the walk: the place of the web part, whether
\* content was found, the text the visit wrote (label and content) and the
\* offset in contentBuilder at which the content starts
Visit(vertical, label, r) ==
    [vertical |-> vertical, sec |-> secIdx, col |-> colIdx, wp |-> wpIdx,
     found |-> r.found, label |-> label, text |-> r.text,
     at |-> Len(contentBuilder) + Len(label)]

VisitWebPartFirst(vertical, label, r) ==
    /\ contentBuilder' = label \o r.text \o contentBuilder
    /\ trace' = Append(trace, Visit(vertical, label, r))

\* the visit of a web part writes its label and what the lookup wrote
VisitWebPart(vertical, label, r) ==
    /\ contentBuilder' = contentBuilder \o label \o r.text
    /\ trace' = Append(trace, Visit(vertical, label, r))

\* the next web part of the column
WebPart ==
    /\ rpc = "webpart"
    /\ \E wp \in WalkWebParts :
          VisitWebPart(FALSE,
                       Plain(<<" ", " ", " ", " ", "W", "e", "b", " ", "P", "a", "r", "t", " ">> \o Itoa(wpIdx + 1) \o <<" ", "(", "T", "y", "p", "e", ":", " ">>
                                 \o wp.type \o <<")", ":", "\n">>),
                       ColumnWebPartContent(wp, format))
    /\ IF wpIdx + 1 < nWps
       THEN GoTo([rpc |-> "webpart", sec |-> secIdx, col |-> colIdx, wp |-> wpIdx + 1])
       ELSE GoTo(AfterWebParts)
    /\ UNCHANGED <<format, opened, nSecs, nCols, nWps, announced, result, webPart, where, resolved,
                   aggVars, ctxVars, pureVars>>

\* the vertical section, after the horizontal sections
Vertical ==
    /\ rpc = "vertical"
    /\ \E vertSection \in BOOLEAN, webParts \in WebPartLists :
          /\ contentBuilder' =
                 contentBuilder
                     \o PlainIf(vertSection, <<"\n", "V", "e", "r", "t", "i", "c", "a", "l", " ", "S", "e", "c", "t", "i", "o", "n", ":", "\n">>)
                     \o PlainIf(vertSection /\ ~webParts.isNil,
                                <<" ", " ", "N", "u", "m", "b", "e", "r", " ", "o", "f", " ", "w", "e", "b", " ", "p", "a", "r", "t", "s", ":", " ">> \o Itoa(webParts.len) \o <<"\n">>)
          /\ nWps' = IF vertSection THEN webParts.len ELSE 0
          /\ announced' = announced + (IF vertSection THEN webParts.len ELSE 0)
          /\ IF vertSection /\ webParts.len > 0
             THEN GoTo([rpc |-> "vwebpart", sec |-> 0, col |-> 0, wp |-> 0])
             ELSE GoTo([rpc |-> "return", sec |-> 0, col |-> 0, wp |-> 0])
    /\ UNCHANGED <<format, opened, nSecs, nCols, trace, result, webPart, where, resolved, aggVars, ctxVars, pureVars>>

\* the next web part of the vertical section
VerticalWebPart ==
    /\ rpc = "vwebpart"
    /\ \E wp \in WalkWebParts :
          VisitWebPart(TRUE,
                       Plain(<<" ", " ", "W", "e", "b", " ", "P", "a", "r", "t", " ">> \o Itoa(wpIdx + 1) \o <<":", "\n">>),
                       VerticalWebPartContent(wp, format))
    /\ IF wpIdx + 1 < nWps
       THEN GoTo([rpc |-> "vwebpart", sec |-> 0, col |-> 0, wp |-> wpIdx + 1])
       ELSE GoTo([rpc |-> "return", sec |-> 0, col |-> 0, wp |-> 0])
    /\ UNCHANGED <<format, opened, nSecs, nCols, nWps, announced, result, webPart, where, resolved,
                   aggVars, ctxVars, pureVars>>

\* the end of the walk: the content, or the fallback when nothing was written
Return ==
    /\ rpc = "return"
    /\ result' = [returned |-> TRUE,
                  content |-> IF contentBuilder = <<>> THEN Fallback ELSE contentBuilder,
                  err |-> FALSE, panic |-> FALSE]
    /\ rpc' = "done"
    /\ UNCHANGED <<format, opened, contentBuilder, secIdx, nSecs, colIdx, nCols, wpIdx, nWps,
                   announced, trace, webPart, where, resolved, aggVars, ctxVars, pureVars>>

-----------------------------------------------------------------------------
(* The content lookup of one web part, on its own *)

\* the values a property of a web part takes: absent, a number, a string
\* (for text and data also the empty one)
PropertyMaps(key, values) ==
    {EmptyMap} \cup {(key :> v) : v \in values}

DataFieldValues(field) ==
    {Number, String(<<>>),
     IF field = "html" THEN String(<<"<", "h", "2", ">", "H", "<", "/", "h", "2", ">">>)
     ELSE IF field = "text" THEN String(<<"t">>)
     ELSE IF field = "content" THEN String(<<"c">>)
     ELSE IF field = "value" THEN String(<<"v">>)
     ELSE String(<<"d">>)}

\* the data maps: every field absent or one of its values
RECURSIVE DataMapsOver(_)
DataMapsOver(n) ==
    IF n = 0 THEN {EmptyMap}
    ELSE {m @@ f : m \in DataMapsOver(n - 1),
                   f \in PropertyMaps(Fields[n], DataFieldValues(Fields[n]))}

DataMaps == DataMapsOver(Len(Fields))

BackingStores ==
    {Nil} \cup {Entries(m) : m \in PropertyMaps("innerHtml", {Number, String(<<"<", "p", ">", "A", "<", "/", "p", ">">>)})}

AdditionalDataMaps ==
    {i @@ t @@ d :
        i \in PropertyMaps("innerHtml", {Number, String(<<"<", "h", "1", ">", "I", "<", "/", "h", "1", ">">>)}),
        t \in PropertyMaps("text", {Number, String(<<>>), String(<<"B">>)}),
        d \in PropertyMaps("data", {Number, String(<<>>), String(<<"D">>)}
                                       \cup {Map(m) : m \in DataMaps})}

ResolveWebParts ==
    [type : {<<"*", "m", "o", "d", "e", "l", "s", ".", "W", "e", "b", "P", "a", "r", "t">>},
     backingStore : BackingStores,
     additionalData : {Nil} \cup {Entries(m) : m \in AdditionalDataMaps}]

NoWebPart == [type |-> <<>>, backingStore |-> Nil, additionalData |-> Nil]
NotResolved == [done |-> FALSE, r |-> NotFound]

\* the lookup of the web part at hand
Resolve ==
    /\ ~resolved.done
    /\ where # ""
    /\ resolved' = [done |-> TRUE, r |-> WebPartContent(where, webPart, format)]
    /\ UNCHANGED <<format, opened, rpc, contentBuilder, secIdx, nSecs, colIdx, nCols, wpIdx, nWps,
                   announced, trace, result, webPart, where, aggVars, ctxVars, pureVars>>

-----------------------------------------------------------------------------
(* A normalizer on its own *)

\* the additional data of a record: any of these attributes, some of them
\* named as a typed field is
OverridingDatas ==
    {[k \in K |-> "w"] : K \in SUBSET {"id", "displayName", "title", "mail"}}

Normalizers == {"users", "applications", "sites", "sitePages"}

ConvertRecords ==
    [normalizer : Normalizers,
     rec : [id : Ids, displayName : Names, additionalData : OverridingDatas]]

NoRecord == [normalizer |-> "", rec |-> <<>>]
NoResource == [done |-> FALSE, key |-> "", map |-> EmptyMap]

\* the typed fields a normalizer writes before the additional data
TypedFields(k, rec) ==
    IF k = "sitePages" THEN [id |-> rec.id, title |-> rec.displayName]
    ELSE [id |-> rec.id, displayName |-> rec.displayName]

\* the normalizer of the record's tool
NormalizeWith(c) == [done |-> TRUE, key |-> c.key, map |-> c.map]

Normalize ==
    /\ ~resource.done
    /\ record # NoRecord
    /\ resource' = NormalizeWith(IF record.normalizer = "sitePages"
                                 THEN convertSitePageToMap(record.rec)
                                 ELSE Convert(record.normalizer, record.rec))
    /\ UNCHANGED <<record, htmlArg, unescaped, mpc, loops, aggVars, renderVars, ctxVars>>

-----------------------------------------------------------------------------
(* htmlToMarkdown on its own, stage by stage *)

\* the texts of the documents
Texts == {<<"T", "i", "t", "l", "e">>, <<"a", " ", "b">>}

\* the pieces of the arguments of htmlToMarkdown
Pieces ==
    {<<"<", "d", "i", "v", ">">>, <<"<", "s", "p", "a", "n", ">">>, <<"<", "/", "\\", "1", ">">>, <<"<", "/", "d", "i", "v", ">">>, <<"<", "p", ">">>, <<"<", "/", "p", ">">>, <<"<", "b", "r", ">">>, <<"\n">>, <<" ">>, <<"x">>, <<"<">>, <<">">>}

\* arguments made of at most MaxPieces pieces
RECURSIVE PieceStrings(_)
PieceStrings(n) ==
    IF n = 0 THEN {<<>>}
    ELSE PieceStrings(n - 1)
             \cup {s \o p : s \in PieceStrings(n - 1), p \in Pieces}

HeadingLevels == 1..4

HeadingTag(n) == <<"h">> \o Itoa(n)

\* <hn>T</hn>
HeadingDoc(n, text) ==
    <<"<">> \o HeadingTag(n) \o <<">">> \o text \o <<"<", "/">> \o HeadingTag(n) \o <<">">>

HeadingDocs ==
    {HeadingDoc(n, text) : n \in HeadingLevels, text \in Texts}
        \cup {HeadingDoc(n, text) \o <<"x">> : n \in HeadingLevels, text \in Texts}

EmphasisTags == {<<"b">>, <<"s", "t", "r", "o", "n", "g">>, <<"i">>, <<"e", "m">>}

\* <tag>T</tag>
TagDoc(tag, text) == <<"<">> \o tag \o <<">">> \o text \o <<"<", "/">> \o tag \o <<">">>

\* <tag>T</\1>, which the expressions of the code match
BackslashDoc(tag, text) == <<"<">> \o tag \o <<">">> \o text \o <<"<", "/", "\\", "1", ">">>

EmphasisDocs ==
    {TagDoc(tag, text) : tag \in EmphasisTags, text \in Texts}
        \cup {BackslashDoc(tag, text) : tag \in EmphasisTags, text \in Texts}

\* the cells of a table row
RECURSIVE Cells(_, _)
Cells(tag, texts) ==
    IF texts = <<>> THEN <<>> ELSE TagDoc(tag, Head(texts)) \o Cells(tag, Tail(texts))

Row(tag, texts) == <<"<", "t", "r", ">">> \o Cells(tag, texts) \o <<"<", "/", "t", "r", ">">>

RECURSIVE Rows(_)
Rows(rows) ==
    IF rows = <<>> THEN <<>> ELSE Row(<<"t", "d">>, Head(rows)) \o Rows(Tail(rows))

\* a table on one line: a first row of th cells (or none) and rows of td cells
TableDoc(header, rows) ==
    <<"<", "t", "a", "b", "l", "e", ">">> \o (IF header = <<>> THEN <<>> ELSE Row(<<"t", "h">>, header)) \o Rows(rows)
        \o <<"<", "/", "t", "a", "b", "l", "e", ">">>

TableShapes ==
    [header : {<<>>, <<<<"N", "a", "m", "e">>>>, <<<<"N", "a", "m", "e">>, <<"A", "g", "e">>>>},
     rows : SeqsUpTo({<<<<"A", "n", "n">>>>, <<<<"A", "n", "n">>, <<"3", "0">>>>}, MaxRows)]

TableDocs == {TableDoc(t.header, t.rows) : t \in TableShapes}

\* x in depth wrappers, each closed by the closer
RECURSIVE Nested(_, _, _)
Nested(depth, open, close) ==
    IF depth = 0 THEN <<"x">> ELSE open \o Nested(depth - 1, open, close) \o close

NestedDocs ==
    {Nested(depth, open, close) :
        depth \in 0..MaxDepth, open \in {<<"<", "d", "i", "v", ">">>, <<"<", "s", "p", "a", "n", " ", "c", "l", "a", "s", "s", "=", "\"", "a", "\"", ">">>},
        close \in {<<"<", "/", "\\", "1", ">">>, <<"<", "/", "d", "i", "v", ">">>, <<"<", "/", "s", "p", "a", "n", ">">>}}

RECURSIVE Newlines(_)
Newlines(n) == IF n = 0 THEN <<>> ELSE <<"\n">> \o Newlines(n - 1)

\* texts and paragraphs with newlines between them and white space around
BlankLineDocs ==
    {<<"x">> \o Newlines(n) \o <<"y">> : n \in 0..MaxNewlines}
        \cup {<<" ", "<", "p", ">", "x", "<", "/", "p", ">">> \o Newlines(n) \o <<"<", "p", ">", "y", "<", "/", "p", ">", "\n">> : n \in 0..MaxNewlines}

ListTags == {<<"u", "l">>, <<"o", "l">>}

ItemTexts == {<<"A">>, <<"B">>}

\* <ul> or <ol> around its items, on one line
ListDoc(tag, texts) == <<"<">> \o tag \o <<">">> \o Cells(<<"l", "i">>, texts) \o <<"<", "/">> \o tag \o <<">">>

ListShapes == [tag : ListTags, texts : SeqsUpTo(ItemTexts, MaxItems)]

ListDocs == {ListDoc(l.tag, l.texts) : l \in ListShapes}

\* texts with balanced, unbalanced and overlapping angle brackets, also as
\* entities and over a line end
BracketDocs ==
    {<<"a", "<", "b", ">", "c">>, <<">", "<", "x", ">", "<">>, <<"<", "<", "x", ">", ">">>, <<"<", "a", "\n", "b", ">", "c">>, <<"&", "l", "t", ";", "x", "&", "g", "t", ";", "y">>, <<"a", " ", ">", " ", "b", " ", "<", " ", "c">>, <<"<", "p", ">", "<", "<", "/", "p", ">", ">">>}

HtmlInputs ==
    PieceStrings(MaxPieces) \cup HeadingDocs \cup EmphasisDocs \cup TableDocs
        \cup NestedDocs \cup BlankLineDocs \cup ListDocs \cup BracketDocs

\* the stages before the loop over divRegex
BeforeDivs(s) ==
    HorizontalRules(Blockquotes(CodeBlocks(
        ReplaceTables(ReplaceImages(
            OrderedLists(UnorderedLists(
                ReplaceLinks(Italic(Bold(Paragraphs(Headings(
                    UnescapeString(s)))))))))))))

DivMatches(s) == s # <<>> /\ MatchesPairs(s, <<<<"<", "d", "i", "v">>, <<"<", "s", "p", "a", "n">>>>, <<"<", "/", "\\", "1", ">">>)

\* a loop body that leaves the string as it is
UnwrapNothing(s) == s

\* one iteration of the loop: divRegex.ReplaceAllString(unescaped, "$2")
UnwrapOnce(s) == ReplacePairs(s, <<<<"<", "d", "i", "v">>, <<"<", "s", "p", "a", "n">>>>, <<"<", "/", "\\", "1", ">">>, <<>>, <<>>)

\* the stages after the loop
AfterDivs(s) == CollapseNewlines(TrimSpace(StripTags(Breaks(s))))

Translate ==
    /\ mpc = "translate"
    /\ unescaped' = BeforeDivs(htmlArg)
    /\ mpc' = "unwrap"
    /\ UNCHANGED <<loops, htmlArg, record, resource, aggVars, renderVars, ctxVars>>

Unwrap ==
    /\ mpc = "unwrap"
    /\ DivMatches(unescaped)
    /\ unescaped' = UnwrapOnce(unescaped)
    /\ loops' = loops + 1
    /\ UNCHANGED <<mpc, htmlArg, record, resource, aggVars, renderVars, ctxVars>>

Finish ==
    /\ mpc = "unwrap"
    /\ ~DivMatches(unescaped)
    /\ unescaped' = AfterDivs(unescaped)
    /\ mpc' = "done"
    /\ UNCHANGED <<loops, htmlArg, record, resource, aggVars, renderVars, ctxVars>>

\* the stages, run one after the other, give what htmlToMarkdown gives
StagesAgree == mpc = "done" => unescaped = htmlToMarkdown(htmlArg)

-----------------------------------------------------------------------------
(* The aggregation specification: one run of Get of one of the three tools *)

\* no page is being rendered
RenderIdle ==
    /\ rpc = "off"
    /\ contentBuilder = <<>>
    /\ secIdx = 0
    /\ nSecs = 0
    /\ colIdx = 0
    /\ nCols = 0
    /\ wpIdx = 0
    /\ nWps = 0
    /\ result = NoResult
    /\ opened = 0
    /\ announced = 0
    /\ trace = <<>>

\* no content lookup runs on its own
ResolveIdle ==
    /\ webPart = NoWebPart
    /\ where = ""
    /\ resolved = NotResolved

\* the context of the caller is not cancelled
CtxIdle ==
    /\ cancelled = FALSE
    /\ lateFetch = FALSE
    /\ bag = "client"
    /\ toolResult = ""

\* no normalizer and no htmlToMarkdown runs on its own
PureIdle ==
    /\ record = NoRecord
    /\ resource = NoResource
    /\ htmlArg = <<>>
    /\ unescaped = <<>>
    /\ mpc = "off"
    /\ loops = 0

\* no Get runs
AggIdle ==
    /\ kind = ""
    /\ pc = "off"
    /\ data = EmptyMap
    /\ ret = NotReturned
    /\ todo = {}
    /\ cur = ""
    /\ items = <<>>
    /\ subRet = NoSubRet
    /\ listed = {}
    /\ pageData = EmptyMap
    /\ left = <<>>
    /\ nfetch = 0
    /\ nrecs = 0
    /\ served = {}
    /\ lastRec = EmptyMap
    /\ laterDup = EmptyMap
    /\ fetchFailed = FALSE
    /\ outcomes = {}

Init ==
    /\ format = ""
    /\ CtxIdle
    /\ PureIdle
    /\ RenderIdle
    /\ ResolveIdle
    /\ kind \in {"users", "applications", "sites"}
    /\ pc = "start"
    /\ data = EmptyMap
    /\ ret = NotReturned
    /\ todo = {}
    /\ cur = ""
    /\ items = <<>>
    /\ subRet = NoSubRet
    /\ listed = {}
    /\ pageData = EmptyMap
    /\ left = <<>>
    /\ nfetch = 0
    /\ nrecs = 0
    /\ served = {}
    /\ lastRec = EmptyMap
    /\ laterDup = EmptyMap
    /\ fetchFailed = FALSE
    /\ outcomes = {}

Next ==
    \/ GetFetchFails
    \/ GetNoValue
    \/ GetFetch
    \/ GetNextFails
    \/ GetNext
    \/ GetSubsitesFetchFails
    \/ GetSubsitesFetch
    \/ GetSubsitesNextFails
    \/ GetSubsitesNext
    \/ GetPagesFetchFails
    \/ GetPagesFetch
    \/ GetPagesNextFails
    \/ GetPagesNext
    \/ GetPageContentOk
    \/ GetPageContentFails
    \/ GetReturn

Spec == Init /\ [][Next]_vars

-----------------------------------------------------------------------------
(* The aggregation under cancellation: the caller may cancel the context of
   the request while a fetch of the running Get is still to come *)

FetchToCome ==
    \/ pc \in {"start", "next", "subsites_next", "pages", "pages_next", "content"}
    \/ pc = "range" /\ todo # {}

\* the caller cancels the context of the request
Cancel ==
    /\ FetchToCome
    /\ ~cancelled
    /\ cancelled' = TRUE
    /\ UNCHANGED <<lateFetch, bag, toolResult, aggVars, renderVars, pureVars>>

NextCancel ==
    \/ Cancel
    \/ GetFetchFails
    \/ GetNoValue
    \/ GetFetch
    \/ GetNextFails
    \/ GetNext
    \/ GetSubsitesFetchFails
    \/ GetSubsitesFetch
    \/ GetSubsitesNextFails
    \/ GetSubsitesNext
    \/ GetPagesFetchFails
    \/ GetPagesFetch
    \/ GetPagesNextFails
    \/ GetPagesNext
    \/ GetPageContentOk
    \/ GetPageContentFails
    \/ GetReturn

SpecCancel == Init /\ [][NextCancel]_vars

-----------------------------------------------------------------------------
(* The tool specification: the Processor of a tool, then its Get *)

InitTool ==
    /\ format = ""
    /\ PureIdle
    /\ RenderIdle
    /\ ResolveIdle
    /\ cancelled = FALSE
    /\ lateFetch = FALSE
    /\ bag \in Baggages
    /\ toolResult = ""
    /\ kind \in {"users", "applications", "sites"}
    /\ pc = "call"
    /\ data = EmptyMap
    /\ ret = NotReturned
    /\ todo = {}
    /\ cur = ""
    /\ items = <<>>
    /\ subRet = NoSubRet
    /\ listed = {}
    /\ pageData = EmptyMap
    /\ left = <<>>
    /\ nfetch = 0
    /\ nrecs = 0
    /\ served = {}
    /\ lastRec = EmptyMap
    /\ laterDup = EmptyMap
    /\ fetchFailed = FALSE
    /\ outcomes = {}

NextTool ==
    \/ Processor
    \/ GetFetchFails
    \/ GetNoValue
    \/ GetFetch
    \/ GetNextFails
    \/ GetNext
    \/ GetSubsitesFetchFails
    \/ GetSubsitesFetch
    \/ GetSubsitesNextFails
    \/ GetSubsitesNext
    \/ GetPagesFetchFails
    \/ GetPagesFetch
    \/ GetPagesNextFails
    \/ GetPagesNext
    \/ GetPageContentOk
    \/ GetPageContentFails
    \/ GetReturn

SpecTool == InitTool /\ [][NextTool]_vars


-----------------------------------------------------------------------------
(* The rendering specification: one run of getPageContent *)

InitRender ==
    /\ AggIdle
    /\ CtxIdle
    /\ PureIdle
    /\ ResolveIdle
    /\ format \in Formats
    /\ rpc = "fetch"
    /\ contentBuilder = <<>>
    /\ secIdx = 0
    /\ nSecs = 0
    /\ colIdx = 0
    /\ nCols = 0
    /\ wpIdx = 0
    /\ nWps = 0
    /\ result = NoResult
    /\ opened = 0
    /\ announced = 0
    /\ trace = <<>>

NextRender ==
    \/ GetPageFails
    \/ GetPage
    \/ Section
    \/ Column
    \/ WebPart
    \/ Vertical
    \/ VerticalWebPart
    \/ Return

SpecRender == InitRender /\ [][NextRender]_vars

-----------------------------------------------------------------------------
(* The lookup specification: the content lookup of one web part *)

InitResolve ==
    /\ AggIdle
    /\ CtxIdle
    /\ PureIdle
    /\ RenderIdle
    /\ format \in Formats
    /\ webPart \in ResolveWebParts
    /\ where \in {"column", "vertical"}
    /\ resolved = NotResolved

NextResolve == Resolve

SpecResolve == InitResolve /\ [][NextResolve]_vars

-----------------------------------------------------------------------------
(* The normalizer specification: one record normalized into a Resource *)

InitConvert ==
    /\ AggIdle
    /\ RenderIdle
    /\ ResolveIdle
    /\ CtxIdle
    /\ format = ""
    /\ record \in ConvertRecords
    /\ resource = NoResource
    /\ htmlArg = <<>>
    /\ unescaped = <<>>
    /\ mpc = "off"
    /\ loops = 0

NextConvert == Normalize

SpecConvert == InitConvert /\ [][NextConvert]_vars

-----------------------------------------------------------------------------
(* The conversion specification: one call of htmlToMarkdown *)

InitMarkdown ==
    /\ AggIdle
    /\ RenderIdle
    /\ ResolveIdle
    /\ CtxIdle
    /\ format = ""
    /\ record = NoRecord
    /\ resource = NoResource
    /\ htmlArg \in HtmlInputs
    /\ unescaped = <<>>
    /\ mpc = "translate"
    /\ loops = 0

NextMarkdown ==
    \/ Translate
    \/ Unwrap
    \/ Finish

SpecMarkdown == InitMarkdown /\ [][NextMarkdown]_vars

-----------------------------------------------------------------------------
(* Claims about the aggregation *)

ReturnedDoc == ret.returned /\ ~ret.err /\ ~ret.nilBytes

\* the attributes of an entry that the normalizer wrote
BaseOf(entry) == [a \in DOMAIN entry \ {"subsites", "pages"} |-> entry[a]]

\* C1: when Get returns the document of a Collection, its key set is exactly
\* the set of identifiers the service delivered on the first page and on every
\* page reached by following the next links
C1_KeySetIsDelivered ==
    ReturnedDoc => DOMAIN ret.doc = served

C1_Witness ==
    /\ ReturnedDoc
    /\ kind = "users"
    /\ nfetch = MaxPages
    /\ served = Ids
    /\ DOMAIN ret.doc = Ids

\* C2 as stated: a record delivered on a later page than a record of the same
\* identifier is the one the final Collection holds for that identifier
C2_EveryLaterRecordWins ==
    ReturnedDoc =>
        \A id \in DOMAIN laterDup :
            /\ id \in DOMAIN ret.doc
            /\ BaseOf(ret.doc[id]) = Convert(kind, laterDup[id]).map

\* C2 amended: the final Collection holds, for every delivered identifier, the
\* normalized form of the last record delivered with that identifier
C2_LastRecordWins ==
    ReturnedDoc =>
        \A id \in DOMAIN lastRec :
            /\ id \in DOMAIN ret.doc
            /\ BaseOf(ret.doc[id]) = Convert(kind, lastRec[id]).map

C2_Witness ==
    /\ ReturnedDoc
    /\ \E id \in DOMAIN laterDup :
        /\ lastRec[id] # laterDup[id]
        /\ BaseOf(ret.doc[id]) = Convert(kind, lastRec[id]).map

\* C3: a failed fetch makes the operation return an error and no records
C3_FailureReturnsNoRecords ==
    /\ (ret.returned /\ fetchFailed) => (ret.err /\ ret.nilBytes)
    /\ subRet.err => subRet.recs = <<>>

OutcomesOf(pageId) == {o \in {"ok", "fail"} : <<pageId, o>> \in outcomes}

HasContent(m, pageId, content) ==
    /\ pageId \in DOMAIN m
    /\ "content" \in DOMAIN m[pageId]
    /\ m[pageId]["content"] = content

PagesStored ==
    /\ pc \in {"range", "done"}
    /\ listed # {}

\* C4: a page whose content fetch fails keeps its entry, with the literal as
\* content; the other pages of the site are rendered and stored with their own
\* documents; Get fails only when a fetch of the sites collection failed
C4_PageFailureIsLocal ==
    /\ \A pid \in PageIds :
        /\ OutcomesOf(pid) = {"fail"} => HasContent(pageData, pid, ErrorFetchingContent)
        /\ OutcomesOf(pid) = {"ok"} => HasContent(pageData, pid, RenderedDoc(cur, pid))
    /\ PagesStored =>
        /\ "pages" \in DOMAIN data[cur]
        /\ data[cur]["pages"] = pageData
        /\ DOMAIN pageData = listed
    /\ (ret.returned /\ ret.err) => fetchFailed

C4_Witness ==
    /\ ReturnedDoc
    /\ OutcomesOf("p") = {"fail"}
    /\ OutcomesOf("q") = {"ok"}
    /\ HasContent(ret.doc[cur]["pages"], "p", ErrorFetchingContent)
    /\ HasContent(ret.doc[cur]["pages"], "q", RenderedDoc(cur, "q"))

\* C5: every site entry of a successful result of sites Get carries both the
\* subsites and the pages sub-mapping
C5_EverySiteEnriched ==
    (ReturnedDoc /\ kind = "sites") =>
        \A id \in DOMAIN ret.doc : {"subsites", "pages"} \subseteq DOMAIN ret.doc[id]

\* C24: every Get returns a non-nil error or the JSON document of the
\* Collection (possibly the empty mapping), never nil bytes with a nil error,
\* also when the first page carries no record list.
C24_ErrorOrDocument == ret.returned => (ret.err \/ ~ret.nilBytes)

\* GetPages has returned its sequence to Get and no page of it is rendered yet:
\* the loop over pages calls getPageContent once for every element of left
PagesListed == pc = "content" /\ outcomes = {}

\* how often the page occurs in the sequence
Occurrences(recs, pid) == Cardinality({i \in 1..Len(recs) : recs[i].id = pid})

\* the service delivered every page record of the site once: as many records
\* as distinct pages
ServedOnce == nrecs = Cardinality(listed)

\* C25: when the service delivers each page record of a site once, the
\* sequence GetPages returns holds each page once, so that getPageContent is
\* called once per page, also when the pages come on more than one service
\* page.
C25_EachPageOnce ==
    (PagesListed /\ ServedOnce) => \A pid \in listed : Occurrences(left, pid) = 1

-----------------------------------------------------------------------------
(* Claims about the content lookup of a web part *)

\* the lookup has run
Resolved == resolved.done

HasBackingHtml(part) ==
    ~part.backingStore.isNil /\ IsString(part.backingStore.entries, "innerHtml")

HasData(part, key) ==
    ~part.additionalData.isNil /\ key \in DOMAIN part.additionalData.entries

HasDataString(part, key) ==
    ~part.additionalData.isNil /\ IsString(part.additionalData.entries, key)

\* C6: a web part, of a column or of the vertical section, that has both an
\* innerHtml string in its backing store and a text string in its additional
\* data resolves to the content derived from the backing-store innerHtml,
\* and never to the text.
C6_BackingStoreBeforeText ==
    (Resolved /\ HasBackingHtml(webPart) /\ HasDataString(webPart, "text"))
        => /\ resolved.r.found
           /\ resolved.r.source = "backingStore.innerHtml"
           /\ resolved.r.content =
                  FromHtml(format, webPart.backingStore.entries["innerHtml"].s)

\* the earlier sources yield nothing and the data of the web part is a map
DataMapCase ==
    /\ Resolved
    /\ ~HasBackingHtml(webPart)
    /\ ~HasDataString(webPart, "innerHtml")
    /\ ~HasDataString(webPart, "text")
    /\ HasData(webPart, "data")
    /\ webPart.additionalData.entries["data"].t = "map"

\* the field holds a non-empty string
NonEmptyString(m, field) ==
    field \in DOMAIN m /\ m[field].t = "string" /\ Len(m[field].s) > 0

\* field n is the first of text, content, value, description, html that does
ScanStopsAt(m, n) ==
    /\ NonEmptyString(m, Fields[n])
    /\ \A k \in 1..(n - 1) : ~NonEmptyString(m, Fields[k])

\* C7: when the earlier sources yield nothing and data is a map, the content
\* is the value of the first field of text, content, value, description, html
\* that holds a non-empty string; it is converted to markdown only when that
\* field is html and the format is markdown, and is the value as it is
\* otherwise; when no field holds a non-empty string nothing is found.
C7_FirstNonEmptyField ==
    DataMapCase =>
        LET m == webPart.additionalData.entries["data"].m
        IN /\ (\A n \in 1..Len(Fields) : ~NonEmptyString(m, Fields[n]))
                  => ~resolved.r.found
           /\ \A n \in 1..Len(Fields) :
                  ScanStopsAt(m, n)
                      => /\ resolved.r.found
                         /\ resolved.r.source = "data"
                         /\ resolved.r.field = Fields[n]
                         /\ resolved.r.content =
                                IF Fields[n] = "html" /\ format = "markdown"
                                THEN htmlToMarkdown(m[Fields[n]].s)
                                ELSE m[Fields[n]].s

\* a data map whose text is an empty string and whose value is not a string
\* resolves, in markdown, to its html, converted
C7_Witness ==
    /\ DataMapCase
    /\ format = "markdown"
    /\ LET m == webPart.additionalData.entries["data"].m
       IN /\ "text" \in DOMAIN m /\ m["text"] = String(<<>>)
          /\ "value" \in DOMAIN m /\ m["value"] = Number
          /\ ScanStopsAt(m, 5)
          /\ resolved.r.field = "html"
          /\ resolved.r.content # m["html"].s
          /\ resolved.r.content = <<"#", "#", " ", "H">>

-----------------------------------------------------------------------------
(* Claims about the walk over the canvas layout *)

\* the place of one visited web part comes before the place of another: the
\* horizontal sections in order, their columns in order, the web parts of a
\* column in order, and the vertical section after every horizontal section
Before(a, b) ==
    \/ ~a.vertical /\ b.vertical
    \/ /\ a.vertical = b.vertical
       /\ \/ a.sec < b.sec
          \/ a.sec = b.sec /\ a.col < b.col
          \/ a.sec = b.sec /\ a.col = b.col /\ a.wp < b.wp

\* where the text of a visit starts (after) and ends in contentBuilder
StartOf(e) == e.at - Len(e.label)
EndOf(e) == e.at + Len(e.text)

\* the text written by the visit stands in contentBuilder at its offset
Stands(e) ==
    /\ EndOf(e) <= Len(contentBuilder)
    /\ SubSeq(contentBuilder, StartOf(e) + 1, EndOf(e)) = e.label \o e.text

\* the walk has returned its text
Rendered == result.returned /\ ~result.err

\* C8: the content of the web parts stands in the output in the order of the
\* traversal: horizontal sections in order, columns in order within a
\* section, web parts in order within a column, and the web parts of the
\* vertical section after those of every horizontal section.
C8_ContentInTraversalOrder ==
    /\ \A i \in 1..Len(trace) : Stands(trace[i])
    /\ \A i, j \in 1..Len(trace) :
           /\ Before(trace[i], trace[j]) <=> i < j
           /\ Before(trace[i], trace[j]) => EndOf(trace[i]) <= StartOf(trace[j])
    /\ (Rendered /\ contentBuilder # <<>>) => result.content = contentBuilder

\* a page rendered with content in two horizontal sections and in the
\* vertical section
C8_Witness ==
    /\ Rendered
    /\ \E i, j, k \in 1..Len(trace) :
           /\ ~trace[i].vertical /\ ~trace[j].vertical /\ trace[k].vertical
           /\ trace[i].sec < trace[j].sec
           /\ trace[i].found /\ trace[j].found /\ trace[k].found
           /\ Len(trace[i].text) > 0 /\ Len(trace[j].text) > 0 /\ Len(trace[k].text) > 0

\* every web part of the lists entered so far has been visited
ListsProcessed == rpc \notin {"webpart", "vwebpart"} => Len(trace) = announced

\* C9 (as stated): in either format a web part for which nothing is found
\* adds no text at all, raises no error, and the web parts after it are
\* still processed.
C9_NotFoundAddsNoText ==
    /\ \A i \in 1..Len(trace) :
           ~trace[i].found => trace[i].label = <<>> /\ trace[i].text = <<>>
    /\ result.err => trace = <<>>
    /\ ListsProcessed

\* C9 (amended): a web part for which nothing is found adds no text at all in
\* markdown, and only its label line, without a content line, in the plain
\* format; it raises no error, and the web parts after it in its list are
\* still processed.
C9_NotFoundAddsNoContent ==
    /\ \A i \in 1..Len(trace) :
           ~trace[i].found
               => /\ trace[i].text = <<>>
                  /\ Stands(trace[i])
                  /\ format = "markdown" => trace[i].label = <<>>
                  /\ format = "plain"
                         => /\ StartsWithAt(TrimLeft(trace[i].label), 1, <<"W", "e", "b", " ", "P", "a", "r", "t", " ">>)
                            /\ IndexFrom(trace[i].label, 1, <<"\n">>) = Len(trace[i].label)
    /\ result.err => trace = <<>>
    /\ ListsProcessed

\* a page rendered with a web part for which nothing is found, followed by
\* one with content
C9_Witness ==
    /\ Rendered
    /\ \E i, j \in 1..Len(trace) :
           /\ i < j
           /\ ~trace[i].found
           /\ trace[j].found /\ Len(trace[j].text) > 0

\* C10: in either format, a section list, a column list, a web part list or
\* the layout name of a section that is empty or absent does not make the
\* walk panic.
C10_WalkDoesNotPanic == ~result.panic

-----------------------------------------------------------------------------
(* The document getPageContent returns *)

\* getPageContent returned a document for a page whose canvas layout holds no
\* horizontal section and whose vertical section holds no web part
NoBlocks ==
    /\ result.returned
    /\ ~result.err
    /\ nSecs = 0
    /\ nWps = 0

\* C11: in markdown, a page without horizontal sections and without web parts
\* in its vertical section renders to exactly the fallback text, whatever its
\* title and description, and the result is not an error.
C11_NoBlocksGivesFallback ==
    (format = "markdown" /\ NoBlocks) =>
        result.content = <<"*", "N", "o", " ", "d", "e", "t", "a", "i", "l", "e", "d", " ", "c", "o", "n", "t", "e", "n", "t", " ", "a", "v", "a", "i", "l", "a", "b", "l", "e", ".", " ", "U", "s", "e", " ", "t", "h", "e", " ", "p", "a", "g", "e", " ", "U", "R", "L", " ", "t", "o", " ", "v", "i", "e", "w", " ", "i", "n", " ", "b", "r", "o", "w", "s", "e", "r", ".", "*">>

EndsInWhiteSpace(s) == s # <<>> /\ s[Len(s)] \in WhiteSpace

\* C12: the document getPageContent returns never ends in whitespace, for
\* every page and both formats.
C12_NoTrailingWhiteSpace ==
    (result.returned /\ ~result.err) => ~EndsInWhiteSpace(result.content)

-----------------------------------------------------------------------------
(* Cancellation of the request context *)

\* C13: once the context of the request is cancelled while a fetch of the
\* request is still to come, no fetch of the request completes successfully
\* any more, and the request returns an error and no Collection.
C13_CancellationAbortsFetches ==
    /\ ~lateFetch
    /\ (cancelled /\ ret.returned) => (ret.err /\ ret.nilBytes)

-----------------------------------------------------------------------------
(* A request context without a client *)

\* C14: a tool invoked with a context that carries no baggage value, or a nil
\* client, returns the tool error "client not found"; it does not panic and
\* issues no fetch.
C14_MissingClientIsToolError ==
    (bag \in {"none", "nilClient"} /\ pc # "call") =>
        /\ toolResult = "client not found"
        /\ nfetch = 0
        /\ ~fetchFailed

-----------------------------------------------------------------------------
(* Normalization of a record *)

Normalized == resource.done

\* C15: in the attribute mapping of a normalized record (user, application,
\* site, site page) every additional-data field holds the additional-data
\* value, also under the name of a typed field, and the typed fields whose
\* names the additional data does not hold keep their typed values.
C15_AdditionalDataWins ==
    Normalized =>
        LET additional == record.rec.additionalData
            typed == TypedFields(record.normalizer, record.rec)
        IN /\ \A k \in DOMAIN additional : resource.map[k] = additional[k]
           /\ \A k \in DOMAIN typed \ DOMAIN additional : resource.map[k] = typed[k]
           /\ DOMAIN resource.map = DOMAIN typed \cup DOMAIN additional

C15_Witness ==
    /\ Normalized
    /\ record.normalizer = "users"
    /\ DOMAIN record.rec.additionalData = {"displayName", "mail"}
    /\ record.rec.displayName = "v1"
    /\ resource.map = [id |-> record.rec.id, displayName |-> "w", mail |-> "w"]

-----------------------------------------------------------------------------
(* htmlToMarkdown *)

\* C16: htmlToMarkdown returns for every argument, the empty string,
\* unbalanced tags and nested wrappers included: every iteration of the loop
\* over divRegex leaves a shorter working string, so the loop ends after
\* finitely many iterations, and the other stages are single steps.
C16_Terminates ==
    [][(mpc = "unwrap" /\ mpc' = "unwrap") => Len(unescaped') < Len(unescaped)]_vars

C16_Witness ==
    /\ mpc = "done"
    /\ loops = 2
    /\ htmlArg = <<"<", "d", "i", "v", ">", "<", "d", "i", "v", ">", "x", "<", "/", "\\", "1", ">", "<", "/", "\\", "1", ">">>
    /\ unescaped = <<"x">>

Returned == mpc = "done"

HasNewlineRun(s) ==
    \E i \in 1..(Len(s) - 2) : s[i] = "\n" /\ s[i + 1] = "\n" /\ s[i + 2] = "\n"

Trimmed(s) == s = <<>> \/ (s[1] \notin WhiteSpace /\ s[Len(s)] \notin WhiteSpace)

\* C17: the string htmlToMarkdown returns holds no run of three or more
\* newlines and neither starts nor ends with white space.
C17_CollapsedAndTrimmed ==
    Returned => (~HasNewlineRun(unescaped) /\ Trimmed(unescaped))

C17_Witness ==
    /\ Returned
    /\ htmlArg = <<"x", "\n", "\n", "\n", "\n", "y">>
    /\ unescaped = <<"x", "\n", "\n", "y">>

RECURSIVE Hashes(_)
Hashes(n) == IF n = 0 THEN <<>> ELSE <<"#">> \o Hashes(n - 1)

\* the heading line of level n
HeadingLine(n, text) == Hashes(n) \o <<" ">> \o text

\* C18 as stated: <hn>T</hn> gives the heading line followed by a blank line,
\* <h2>Title</h2> gives "## Title" and two newlines.
C18_HeadingThenBlankLine ==
    \A n \in HeadingLevels, text \in Texts :
        (Returned /\ htmlArg = HeadingDoc(n, text)) =>
            unescaped = HeadingLine(n, text) \o <<"\n", "\n">>

\* C18, amended: <hn>T</hn> gives the heading line alone, the blank line the
\* heading stage writes being trimmed at the end of the string; it stands
\* between the heading line and a text that follows the heading.
C18_HeadingLine ==
    \A n \in HeadingLevels, text \in Texts :
        /\ (Returned /\ htmlArg = HeadingDoc(n, text)) =>
               unescaped = HeadingLine(n, text)
        /\ (Returned /\ htmlArg = HeadingDoc(n, text) \o <<"x">>) =>
               unescaped = HeadingLine(n, text) \o <<"\n", "\n", "x">>

C18_Witness ==
    /\ Returned
    /\ htmlArg = <<"<", "h", "2", ">", "T", "i", "t", "l", "e", "<", "/", "h", "2", ">">>
    /\ unescaped = <<"#", "#", " ", "T", "i", "t", "l", "e">>

\* "| t1 | t2 |" for the texts of a row
RECURSIVE PipeRow(_)
PipeRow(texts) ==
    IF texts = <<>> THEN <<"|">> ELSE <<"|", " ">> \o Head(texts) \o <<" ">> \o PipeRow(Tail(texts))

\* the texts Column 1 .. Column m
ColumnTexts(m) == [i \in 1..m |-> <<"C", "o", "l", "u", "m", "n", " ">> \o Itoa(i)]

\* the texts --- of a separator row of k cells
SeparatorTexts(k) == [i \in 1..k |-> <<"-", "-", "-">>]

RECURSIVE PipeRows(_)
PipeRows(rows) ==
    IF rows = <<>> THEN <<>> ELSE <<PipeRow(Head(rows))>> \o PipeRows(Tail(rows))

\* the header texts of a table: its th cells, or numbered columns by the td
\* cells of its first row
HeaderTexts(header, rows) ==
    IF header # <<>> THEN header ELSE ColumnTexts(Len(rows[1]))

\* the lines C19 names for a table, in their order
TableLines(header, rows) ==
    IF header = <<>> /\ rows = <<>> THEN <<>>
    ELSE <<PipeRow(HeaderTexts(header, rows)),
           PipeRow(SeparatorTexts(Len(HeaderTexts(header, rows))))>> \o PipeRows(rows)

\* the lines occur in s in this order, one after the end of the other
RECURSIVE InOrderFrom(_, _, _)
InOrderFrom(s, i, lines) ==
    IF lines = <<>> THEN TRUE
    ELSE LET k == IndexFrom(s, i, Head(lines))
         IN k # 0 /\ InOrderFrom(s, k + Len(Head(lines)), Tail(lines))

\* C19: for a table on one line the output holds, in this order, the header
\* row (the th texts of the first row, or Column 1 .. Column m by its td
\* cells), the separator row of as many --- cells, and a row of the td texts
\* of every data row.
C19_TableRowsInOrder ==
    \A t \in TableShapes :
        (Returned /\ htmlArg = TableDoc(t.header, t.rows)) =>
            InOrderFrom(unescaped, 1, TableLines(t.header, t.rows))

C19_Witness ==
    /\ Returned
    /\ htmlArg = <<"<", "t", "a", "b", "l", "e", ">", "<", "t", "r", ">", "<", "t", "h", ">", "N", "a", "m", "e", "<", "/", "t", "h", ">", "<", "t", "h", ">", "A", "g", "e", "<", "/", "t", "h", ">", "<", "/", "t", "r", ">", "<", "t", "r", ">", "<", "t", "d", ">", "A", "n", "n", "<", "/", "t", "d", ">", "<", "t", "d", ">", "3", "0", "<", "/", "t", "d", ">", "<", "/", "t", "r", ">", "<", "/", "t", "a", "b", "l", "e", ">">>
    /\ InOrderFrom(unescaped, 1, <<<<"|", " ", "N", "a", "m", "e", " ", "|", " ", "A", "g", "e", " ", "|">>, <<"|", " ", "-", "-", "-", " ", "|", " ", "-", "-", "-", " ", "|">>, <<"|", " ", "A", "n", "n", " ", "|", " ", "3", "0", " ", "|">>>>)

\* the marks of an emphasis tag
EmphasisMarks(tag) == IF tag \in {<<"b">>, <<"s", "t", "r", "o", "n", "g">>} THEN <<"*", "*">> ELSE <<"*">>

\* C20: <b>T</b> and <strong>T</strong> give **T**, <i>T</i> and <em>T</em>
\* give *T*, for a single-line text T without markup.
C20_EmphasisMarked ==
    \A tag \in EmphasisTags, text \in Texts :
        (Returned /\ htmlArg = TagDoc(tag, text)) =>
            unescaped = EmphasisMarks(tag) \o text \o EmphasisMarks(tag)

-----------------------------------------------------------------------------
(* htmlToMarkdown: lists, wrappers, tags, tables *)

\* the prefix of an item by the list that contains it
ItemMarker(tag) == IF tag = <<"o", "l">> THEN <<"1", ".", " ">> ELSE <<"-", " ">>

\* the item lines of a list, a newline between them
RECURSIVE ItemLines(_, _)
ItemLines(marker, texts) ==
    IF texts = <<>> THEN <<>>
    ELSE marker \o Head(texts)
             \o (IF Tail(texts) = <<>> THEN <<>> ELSE <<"\n">> \o ItemLines(marker, Tail(texts)))

\* C21: a list on one line gives one line per item and no container marker,
\* the items of <ol> prefixed "1. " and the items of <ul> prefixed "- ":
\* <ol><li>A</li><li>B</li></ol> gives "1. A" and "1. B".
C21_ItemPrefixByList ==
    \A l \in ListShapes :
        (Returned /\ htmlArg = ListDoc(l.tag, l.texts)) =>
            unescaped = ItemLines(ItemMarker(l.tag), l.texts)

\* the loop over divRegex has ended: its condition is false
UnwrapEnded == mpc = "unwrap" /\ ~DivMatches(unescaped)

\* s holds <div ...>...</div> or <span ...>...</span> on one line
HasWrapper(s) ==
    /\ s # <<>>
    /\ \/ MatchesPairs(s, <<<<"<", "d", "i", "v">>>>, <<"<", "/", "d", "i", "v", ">">>)
       \/ MatchesPairs(s, <<<<"<", "s", "p", "a", "n">>>>, <<"<", "/", "s", "p", "a", "n", ">">>)

\* C22: when the loop over divRegex ends, the working string holds no
\* <div ...>...</div> and no <span ...>...</span> pair on one line, for
\* wrappers nested to any depth.
C22_NoWrapperLeft == UnwrapEnded => ~HasWrapper(unescaped)

\* s holds a "<" and, somewhere after it, a ">"
HasTagSyntax(s) ==
    \E i \in 1..Len(s) : \E j \in (i + 1)..Len(s) : s[i] = "<" /\ s[j] = ">"

\* C23: the string htmlToMarkdown returns holds no "<" that is followed
\* anywhere later by a ">", for every argument, unbalanced and overlapping
\* brackets included.
C23_NoTagSyntax == Returned => ~HasTagSyntax(unescaped)

C23_Witness ==
    /\ Returned
    /\ htmlArg = <<">", "<", "x", ">", "<">>
    /\ unescaped = <<">", "<">>

\* the lines of s
RECURSIVE SplitLines(_)
SplitAt(s, k) ==
    IF k = 0 THEN <<s>>
    ELSE <<SubSeq(s, 1, k - 1)>> \o SplitLines(SubSeq(s, k + 1, Len(s)))

SplitLines(s) == SplitAt(s, IndexFrom(s, 1, <<"\n">>))

\* the cells of a line of a table: one less than its "|"
CellCount(line) == Cardinality({i \in 1..Len(line) : line[i] = "|"}) - 1

\* a table with a row to take the header from, every data row of which has as
\* many cells as the header
Uniform(t) ==
    /\ t.header # <<>> \/ t.rows # <<>>
    /\ \A i \in 1..Len(t.rows) : Len(t.rows[i]) = Len(HeaderTexts(t.header, t.rows))

\* C26: every line of the table htmlToMarkdown writes has as many cells as
\* the header row; the row of th cells gives the header line and the
\* separator line and no line without cells (a lone "|").
C26_LinesHaveHeaderCells ==
    \A t \in TableShapes :
        (Returned /\ htmlArg = TableDoc(t.header, t.rows) /\ Uniform(t)) =>
            LET lines == SplitLines(unescaped)
            IN \A i \in 1..Len(lines) :
                   CellCount(lines[i]) = Len(HeaderTexts(t.header, t.rows))

====
